---- MODULE Spec2Model ----
(***************************************************************************)
(* Model of the Spaced Everything plugin (src/src/main.ts, settings.ts,    *)
(* frontmatterQueue.ts, suggester.ts).                                     *)
(*                                                                         *)
(* Numbers.  Intervals and ease factors are fixed-point integers in units  *)
(* of 0.0001 (the resolution of toFixed(4)): 2.6 is 26000.  Times are      *)
(* integers in ticks of 40 ms, the largest unit that divides both one      *)
(* second (the resolution of a written timestamp) and 0.0001 day (8640 ms, *)
(* the resolution of an interval), so that every due time is a whole       *)
(* number of ticks.  The product prevInterval * newEaseFactor is rounded   *)
(* as toFixed rounds its exact value (half up); the binary rounding error  *)
(* of the double product is far below the fixed-point unit.                *)
(***************************************************************************)
EXTENDS Integers, Sequences, FiniteSets, TLC

VARIABLES
    settings,   \* plugin.settings: spacingMethods, contexts, timestampTimeZone
    fm,         \* the frontmatter of every note of the vault
    queue,      \* FrontmatterQueue.queue, in insertion order
    now,        \* the clock, Date.now()
    tz,         \* the local zone of the machine, minutes east of UTC
    task,       \* per command, its invocation in flight (or idle)
    notices,    \* the Notices shown by the last step
    obs,        \* what the last step computed (arguments and results)
    ncmd        \* number of commands run so far

vars == <<settings, fm, queue, now, tz, task, notices, obs, ncmd>>

-----------------------------------------------------------------------------
(* Bounds of the model *)

MaxCommands == 3
MaxDays == 3

-----------------------------------------------------------------------------
(* Fixed-point numbers and time units *)

Scale == 10000
MinEase == 13000
HardInterval == 10000
HardEase == 25000
DefaultInterval == 10000
DefaultEaseFactor == 25000
NoScore == -1
NaN == -2

TicksPerSecond == 1000 \div 40
TicksPerMinute == 60 * TicksPerSecond
TicksPerDay == 24 * 60 * TicksPerMinute
TicksPerUnit == TicksPerDay \div Scale

Max(a, b) == IF a >= b THEN a ELSE b

\* x || y || z on numbers: 0 (and a missing value, read as 0) and NaN are
\* falsy
OrElse(a, b) == IF a # 0 /\ a # NaN THEN a ELSE b

\* parseFloat((a * b).toFixed(4)) for fixed-point a and b >= 0; the product
\* is split so that no intermediate value exceeds 32 bits
MulRound4(a, b) ==
    LET hi == a \div Scale
        lo == a % Scale
    IN hi * b + ((lo * b + Scale \div 2) \div Scale)

-----------------------------------------------------------------------------
(* Frontmatter *)

FM_INTERVAL == "se-interval"
FM_LAST_REVIEWED == "se-last-reviewed"
FM_EASE == "se-ease"
FM_METHOD == "se-method"
FM_CONTEXTS == "se-contexts"

Keys == {FM_INTERVAL, FM_LAST_REVIEWED, FM_EASE, FM_METHOD, FM_CONTEXTS}

EmptyFm == [k \in {} |-> 0]

Has(f, k) == k \in DOMAIN f

\* vault.getAbstractFileByPath(path) instanceof TFile: the notes of the vault
\* are the domain of fm
IsFile(path) == path \in DOMAIN fm

\* frontmatter?.[k] || dflt
Get(f, k, dflt) == IF Has(f, k) THEN f[k] ELSE dflt

\* one entry of the queue: the keys to set and the keys to delete
\* (a value of undefined deletes the key)
NoUpdates == [set |-> EmptyFm, del |-> {}]

\* Object.assign(fileUpdates, updates)
Assign(old, new) ==
    [set |-> [k \in (((DOMAIN old.set) \ new.del) \cup DOMAIN new.set) |->
                 IF k \in DOMAIN new.set THEN new.set[k] ELSE old.set[k]],
     del |-> (old.del \ DOMAIN new.set) \cup new.del]

\* the callback of updateFrontmatter
ApplyUpdates(f, u) ==
    [k \in (((DOMAIN f) \ u.del) \cup DOMAIN u.set) |->
        IF k \in DOMAIN u.set THEN u.set[k] ELSE f[k]]

-----------------------------------------------------------------------------
(* Timestamps.  A written timestamp is its wall-clock reading in whole     *)
(* seconds plus its zone designator: "Z", a numeric offset, or none.       *)

Abs(x) == IF x < 0 THEN -x ELSE x

\* the % of JavaScript: the remainder has the sign of the dividend
JsRem(a, b) == IF a >= 0 THEN a % b ELSE -((-a) % b)

Stamp(wall, zone, off) == [wall |-> wall, zone |-> zone, off |-> off]

formatTimestamp(date, timeZone, localOffset) ==
    IF timeZone = "Local"
    THEN LET tzOffset == localOffset
             offsetHours == Abs(tzOffset \div 60)
             offsetMinutes == Abs(JsRem(tzOffset, 60))
             offsetSign == IF tzOffset >= 0 THEN 1 ELSE -1
         IN Stamp((date + localOffset * TicksPerMinute) \div TicksPerSecond,
                  "offset", offsetSign * (offsetHours * 60 + offsetMinutes))
    ELSE Stamp(date \div TicksPerSecond, "Z", 0)

\* a value that is no timestamp: undefined, null or the empty string
NoStamp == Stamp(0, "absent", 0)

\* mutant: a timestamp without a zone is read as UTC whatever the setting
parseTimestampBareUTC(timestamp, timeZone, localOffset) ==
    IF timestamp = NoStamp
    THEN 0
    ELSE IF timestamp.zone = "offset"
    THEN timestamp.wall * TicksPerSecond - timestamp.off * TicksPerMinute
    ELSE timestamp.wall * TicksPerSecond

\* mutant: with the setting Local the zone of the machine is applied to
\* every timestamp that does not end in Z
parseTimestampLocalFirst(timestamp, timeZone, localOffset) ==
    IF timestamp = NoStamp
    THEN 0
    ELSE IF timestamp.zone = "Z"
    THEN timestamp.wall * TicksPerSecond
    ELSE IF timeZone = "Local"
    THEN timestamp.wall * TicksPerSecond - localOffset * TicksPerMinute
    ELSE IF timestamp.zone = "offset"
    THEN timestamp.wall * TicksPerSecond - timestamp.off * TicksPerMinute
    ELSE timestamp.wall * TicksPerSecond

parseTimestamp(timestamp, timeZone, localOffset) ==
    IF timestamp = NoStamp
    THEN 0
    ELSE IF timestamp.zone = "Z"
    THEN timestamp.wall * TicksPerSecond
    ELSE IF timestamp.zone = "offset"
    THEN timestamp.wall * TicksPerSecond - timestamp.off * TicksPerMinute
    ELSE IF timeZone = "Local"
    THEN timestamp.wall * TicksPerSecond - localOffset * TicksPerMinute
    ELSE timestamp.wall * TicksPerSecond

-----------------------------------------------------------------------------
(* Settings: spacing methods and contexts *)

Undefined == "<undefined>"

Option(name, score) == [name |-> name, score |-> score]

Method(name, options, interval, ease) ==
    [name |-> name, spacingAlgorithm |-> "SuperMemo2.0", reviewOptions |-> options,
     defaultInterval |-> interval, defaultEaseFactor |-> ease]

Context(name, active, method) ==
    [name |-> name, isActive |-> active, spacingMethodName |-> method]

\* Array.prototype.findIndex, 1-based; 0 when nothing matches
Find(seq, Test(_)) ==
    LET hits == {i \in 1..Len(seq) : Test(seq[i])}
    IN IF hits = {} THEN 0 ELSE CHOOSE i \in hits : \A j \in hits : i <= j

FindMethod(name) == LET Named(m) == m.name = name IN Find(settings.spacingMethods, Named)

FindContext(name) == LET Named(c) == c.name = name IN Find(settings.contexts, Named)

Range(seq) == {seq[i] : i \in 1..Len(seq)}

RemoveAt(seq, i) == [j \in 1..(Len(seq) - 1) |-> IF j < i THEN seq[j] ELSE seq[j + 1]]

-----------------------------------------------------------------------------
(* Interval Update Engine: the callback of updateInterval *)

\* mutant: the quadratic term of the ease change is dropped
EaseDeltaLinear(reviewScore) ==
    (Scale \div 10) - (5 - reviewScore) * ((8 * Scale) \div 100)

\* 0.1 - (5 - reviewScore) * (0.08 + (5 - reviewScore) * 0.02), fixed-point
EaseDelta(reviewScore) ==
    (Scale \div 10) -
    (5 - reviewScore) * ((8 * Scale) \div 100 + (5 - reviewScore) * ((2 * Scale) \div 100))

\* mutant: the ease factor is not floored at 1.3
newEaseOfNoFloor(prevEaseFactor, reviewScore) ==
    prevEaseFactor + EaseDelta(reviewScore)

newEaseOf(prevEaseFactor, reviewScore) ==
    Max(MinEase, prevEaseFactor + EaseDelta(reviewScore))

\* mutant: a score below 3 does not override the interval
newIntervalOfNoOverride(prevInterval, newEaseFactor, reviewScore) ==
    Max(Scale, MulRound4(prevInterval, newEaseFactor))

newIntervalOf(prevInterval, newEaseFactor, reviewScore) ==
    IF reviewScore < 3
    THEN Scale
    ELSE Max(Scale, MulRound4(prevInterval, newEaseFactor))

\* what the callback reads and computes from the note's current frontmatter
computeInterval(frontmatter, reviewScore, method) ==
    LET prevInterval ==
            OrElse(Get(frontmatter, FM_INTERVAL, 0), OrElse(method.defaultInterval, HardInterval))
        prevEaseFactor ==
            OrElse(Get(frontmatter, FM_EASE, 0), OrElse(method.defaultEaseFactor, HardEase))
        \* arithmetic on NaN, Math.max with NaN and NaN.toFixed(4) give NaN,
        \* and NaN < 3 is false
        newEaseFactor == IF reviewScore = NaN THEN NaN
                         ELSE newEaseOf(prevEaseFactor, reviewScore)
    IN [prevInterval |-> prevInterval, prevEaseFactor |-> prevEaseFactor,
        reviewScore |-> reviewScore,
        newInterval |-> IF newEaseFactor = NaN THEN NaN
                        ELSE newIntervalOf(prevInterval, newEaseFactor, reviewScore),
        newEaseFactor |-> newEaseFactor]

-----------------------------------------------------------------------------
(* Method Resolver: getActiveSpacingMethod *)

\* mutant: the binding of the first context is preferred to the se-method key
getActiveSpacingMethodByContext(frontmatter) ==
    LET byKey == FindMethod(Get(frontmatter, FM_METHOD, Undefined))
        noteContexts == Get(frontmatter, FM_CONTEXTS, <<>>)
        ctx == IF Len(noteContexts) = 0 THEN 0 ELSE FindContext(noteContexts[1])
        contextSpacingMethod == IF ctx = 0 THEN "" ELSE settings.contexts[ctx].spacingMethodName
        byContext == IF contextSpacingMethod = "" THEN 0 ELSE FindMethod(contextSpacingMethod)
    IN IF byContext # 0 THEN [how |-> "context", index |-> byContext]
       ELSE IF byKey # 0 THEN [how |-> "method", index |-> byKey]
       ELSE IF Len(settings.spacingMethods) = 0 THEN [how |-> "crash", index |-> 0]
       ELSE [how |-> IF Len(noteContexts) = 0 THEN "noContext" ELSE "unmapped", index |-> 1]

\* mutant: the first context of the note that is bound to a registered
\* method decides, not the first context alone
getActiveSpacingMethodAnyContext(frontmatter) ==
    LET byKey == FindMethod(Get(frontmatter, FM_METHOD, Undefined))
        noteContexts == Get(frontmatter, FM_CONTEXTS, <<>>)
        BoundAt(i) == LET ctx == FindContext(noteContexts[i])
                      IN IF ctx = 0 \/ settings.contexts[ctx].spacingMethodName = "" THEN 0
                         ELSE FindMethod(settings.contexts[ctx].spacingMethodName)
        bound == {i \in 1..Len(noteContexts) : BoundAt(i) # 0}
    IN IF byKey # 0 THEN [how |-> "method", index |-> byKey]
       ELSE IF bound # {}
            THEN [how |-> "context", index |-> BoundAt(CHOOSE i \in bound : \A j \in bound : i <= j)]
       ELSE IF Len(settings.spacingMethods) = 0 THEN [how |-> "crash", index |-> 0]
       ELSE [how |-> IF Len(noteContexts) = 0 THEN "noContext" ELSE "unmapped", index |-> 1]

\* mutant: the fallback is the last registered method
getActiveSpacingMethodLast(frontmatter) ==
    LET byKey == FindMethod(Get(frontmatter, FM_METHOD, Undefined))
        noteContexts == Get(frontmatter, FM_CONTEXTS, <<>>)
        ctx == IF Len(noteContexts) = 0 THEN 0 ELSE FindContext(noteContexts[1])
        contextSpacingMethod == IF ctx = 0 THEN "" ELSE settings.contexts[ctx].spacingMethodName
        byContext == IF contextSpacingMethod = "" THEN 0 ELSE FindMethod(contextSpacingMethod)
    IN IF byKey # 0 THEN [how |-> "method", index |-> byKey]
       ELSE IF Len(noteContexts) # 0 /\ byContext # 0 THEN [how |-> "context", index |-> byContext]
       ELSE IF Len(settings.spacingMethods) = 0 THEN [how |-> "crash", index |-> 0]
       ELSE [how |-> IF Len(noteContexts) = 0 THEN "noContext" ELSE "unmapped",
             index |-> Len(settings.spacingMethods)]

\* mutant: an se-method key that names no registered method is an error
getActiveSpacingMethodStrict(frontmatter) ==
    LET byKey == FindMethod(Get(frontmatter, FM_METHOD, Undefined))
        noteContexts == Get(frontmatter, FM_CONTEXTS, <<>>)
        ctx == IF Len(noteContexts) = 0 THEN 0 ELSE FindContext(noteContexts[1])
        contextSpacingMethod == IF ctx = 0 THEN "" ELSE settings.contexts[ctx].spacingMethodName
        byContext == IF contextSpacingMethod = "" THEN 0 ELSE FindMethod(contextSpacingMethod)
    IN IF byKey # 0 THEN [how |-> "method", index |-> byKey]
       ELSE IF Has(frontmatter, FM_METHOD) THEN [how |-> "crash", index |-> 0]
       ELSE IF Len(noteContexts) # 0 /\ byContext # 0 THEN [how |-> "context", index |-> byContext]
       ELSE IF Len(settings.spacingMethods) = 0 THEN [how |-> "crash", index |-> 0]
       ELSE [how |-> IF Len(noteContexts) = 0 THEN "noContext" ELSE "unmapped", index |-> 1]

\* how the method is found: "method" by the se-method key, "context" by the
\* first context of the note, "noContext" and "unmapped" by falling back to
\* the first registered method; "crash" when that first method does not exist
getActiveSpacingMethod(frontmatter) ==
    LET methods == settings.spacingMethods
        byKey == FindMethod(Get(frontmatter, FM_METHOD, Undefined))
        noteContexts == Get(frontmatter, FM_CONTEXTS, <<>>)
        firstContext == noteContexts[1]
        ctx == FindContext(firstContext)
        contextSpacingMethod == IF ctx = 0 THEN "" ELSE settings.contexts[ctx].spacingMethodName
        byContext == IF contextSpacingMethod = "" THEN 0 ELSE FindMethod(contextSpacingMethod)
        First(how) == IF Len(methods) = 0
                      THEN [how |-> "crash", index |-> 0]
                      ELSE [how |-> how, index |-> 1]
    IN IF byKey # 0 THEN [how |-> "method", index |-> byKey]
       ELSE IF Len(noteContexts) = 0 THEN First("noContext")
       ELSE IF byContext # 0 THEN [how |-> "context", index |-> byContext]
       ELSE First("unmapped")

-----------------------------------------------------------------------------
(* Due-Queue Builder: filterNotesByContext and openNextReviewItem *)

\* vault.getMarkdownFiles()
Files == <<"n1", "n2", "n3">>
Notes == Range(Files)

activeContexts == {settings.contexts[i].name :
                      i \in {j \in 1..Len(settings.contexts) : settings.contexts[j].isActive}}

\* mutant: only the first context of the note is compared
hasActiveContextFirst(file) ==
    LET noteContexts == Get(fm[file], FM_CONTEXTS, <<>>)
    IN Len(noteContexts) = 0 \/ noteContexts[1] \in activeContexts

hasActiveContext(file) ==
    LET noteContexts == Get(fm[file], FM_CONTEXTS, <<>>)
    IN Len(noteContexts) = 0 \/ Range(noteContexts) \cap activeContexts # {}

\* mutant: without registered contexts only the untagged notes pass
filterNotesByContextTagged(files) ==
    IF activeContexts = {} /\ Len(settings.contexts) > 0 THEN <<>>
    ELSE SelectSeq(files, hasActiveContext)

filterNotesByContext(files) ==
    IF Len(settings.contexts) = 0 THEN files
    ELSE IF activeContexts = {} THEN <<>>
    ELSE SelectSeq(files, hasActiveContext)

lastReviewedOf(metadata) ==
    IF Has(metadata, FM_LAST_REVIEWED)
    THEN parseTimestamp(metadata[FM_LAST_REVIEWED], settings.timestampTimeZone, tz)
    ELSE 0

\* aLastReviewed + (aInterval || 0): an interval of NaN counts as 0
dueTimeOf(metadata) ==
    lastReviewedOf(metadata) + OrElse(Get(metadata, FM_INTERVAL, 0), 0) * TicksPerUnit

\* mutant: a note is due from its due time on
isDueFrom(file) ==
    /\ Has(fm[file], FM_INTERVAL)
    /\ now >= dueTimeOf(fm[file])

\* currentTime > lastReviewed + timeDiff, which is false when the interval is
\* NaN
isDue(file) ==
    /\ Has(fm[file], FM_INTERVAL)
    /\ fm[file][FM_INTERVAL] # NaN
    /\ now > dueTimeOf(fm[file])

\* Array.prototype.sort with the comparator aDueTime - bDueTime: stable
RECURSIVE InsertByDue(_, _)
InsertByDue(sorted, file) ==
    IF sorted = <<>> THEN <<file>>
    ELSE IF dueTimeOf(fm[Head(sorted)]) - dueTimeOf(fm[file]) > 0
         THEN <<file>> \o sorted
         ELSE <<Head(sorted)>> \o InsertByDue(Tail(sorted), file)

\* mutant: the queue keeps the order of the vault
SortByDueNot(files) == files

RECURSIVE SortByDue(_)
SortByDue(files) ==
    IF files = <<>> THEN <<>>
    ELSE InsertByDue(SortByDue(SubSeq(files, 1, Len(files) - 1)), files[Len(files)])

filteredPages == SortByDue(SelectSeq(filterNotesByContext(Files), isDue))


-----------------------------------------------------------------------------
(* FrontmatterQueue *)

Entry(path, upd) == [path |-> path, upd |-> upd]

Updates(set) == [set |-> set, del |-> {}]

QueueIndex(q, path) == LET At(e) == e.path = path IN Find(q, At)

\* mutant: every call adds an entry of its own
QueueAddAppend(q, path, upd) == Append(q, Entry(path, Assign(NoUpdates, upd)))

\* FrontmatterQueue.add
QueueAdd(q, path, upd) ==
    IF QueueIndex(q, path) = 0
    THEN Append(q, Entry(path, Assign(NoUpdates, upd)))
    ELSE [q EXCEPT ![QueueIndex(q, path)].upd = Assign(@, upd)]

-----------------------------------------------------------------------------
(* Commands.  A command runs in steps separated by its await points: a     *)
(* suggester prompt (resolved when the user chooses an item) and the calls *)
(* of processFrontMatter (whose callback runs later).  A prompt is modal:  *)
(* while one is open the user starts no other command.                     *)

Cmds == {"review", "toggle", "update"}

Idle == [pc |-> "idle"]

NoObs == [op |-> "none"]

NoCalc == [reviewScore |-> -1]

NoRes == [how |-> "none", name |-> Undefined]

\* the review that removes the note computes no interval
RemoveCalc == [reviewScore |-> -1, remove |-> TRUE]

\* what an onboarding writes: the method chosen and the instant it began at
OnboardRes(method, start) == [how |-> "onboard", name |-> method.name, start |-> start]

\* the resolution an invocation made, if it made one
ResOf(r) == IF "res" \in DOMAIN r THEN r.res ELSE NoRes

Prompts == {"prompt", "onbCtx", "onbMethod"}

NoPrompt == \A c \in Cmds : task[c].pc \notin Prompts

AllIdle == \A c \in Cmds : task[c].pc = "idle"

CanStart(c) == task[c].pc = "idle" /\ NoPrompt /\ ncmd < MaxCommands

\* the state of FrontmatterQueue.process awaiting the callback of entry idx
Writing(file, res, calc, q, idx) ==
    [pc |-> "write", file |-> file, res |-> res, calc |-> calc, idx |-> idx, detached |-> FALSE,
     wpath |-> q[idx].path, wupd |-> NoUpdates]

\* the loop of process() goes on to the next entry, from index from on, whose
\* path is a file, passing over the others; 0 when there is none
NextEntry(q, from) ==
    LET files == {i \in from..Len(q) : IsFile(q[i].path)}
    IN IF files = {} THEN 0 ELSE CHOOSE i \in files : \A j \in files : i <= j

\* queue.clear() leaves to a pending write of another process() the updates
\* object it was called with, and to its iterator the entries added later
Detach(r, q) ==
    IF r.pc = "write" /\ ~r.detached
    THEN [r EXCEPT !.detached = TRUE, !.wupd = q[r.idx].upd, !.idx = 0]
    ELSE r

\* await this.processFrontmatterQueue(), with the queue as the command left
\* it: up to the first write awaited, or to queue.clear() when no entry is
\* written
Process(c, file, res, calc, q) ==
    IF NextEntry(q, 1) = 0
    THEN /\ queue' = <<>>
         /\ task' = [d \in Cmds |-> IF d = c THEN Idle ELSE Detach(task[d], q)]
    ELSE /\ queue' = q
         /\ task' = [task EXCEPT ![c] = Writing(file, res, calc, q, NextEntry(q, 1))]

\* the callback of updateFrontmatter runs, and process() goes on to the next
\* entry or clears the queue.  processFrontMatter of a file that is gone
\* never runs the callback: the promise of updateFrontmatter stays pending
WriteCallback(c) ==
    /\ task[c].pc = "write"
    /\ IsFile(task[c].wpath)
    /\ LET r == task[c]
           u == IF r.detached THEN r.wupd ELSE queue[r.idx].upd
           next == NextEntry(queue, r.idx + 1)
       IN /\ fm' = [fm EXCEPT ![r.wpath] = ApplyUpdates(@, u)]
          /\ obs' = [op |-> "write", by |-> c, path |-> r.wpath, file |-> r.file,
                     res |-> r.res, calc |-> r.calc]
          /\ IF next # 0
             THEN /\ task' = [task EXCEPT ![c] = [r EXCEPT !.idx = next, !.detached = FALSE,
                                                           !.wpath = queue[next].path,
                                                           !.wupd = NoUpdates]]
                  /\ UNCHANGED queue
             ELSE /\ task' = [d \in Cmds |-> IF d = c THEN Idle ELSE Detach(task[d], queue)]
                  /\ queue' = <<>>
    /\ notices' = <<>>
    /\ UNCHANGED <<settings, now, tz, ncmd>>

\* a prompt is dismissed: the promise of suggester never resolves
Dismiss(c) ==
    /\ task[c].pc \in Prompts
    /\ task' = [task EXCEPT ![c] = Idle]
    /\ obs' = [op |-> "dismiss", by |-> c, file |-> task[c].file, at |-> task[c].pc,
               res |-> ResOf(task[c])]
    /\ notices' = <<>>
    /\ UNCHANGED <<settings, fm, queue, now, tz, ncmd>>

-----------------------------------------------------------------------------
(* logReviewOutcome *)

MethodNames == [i \in 1..Len(settings.spacingMethods) |-> settings.spacingMethods[i].name]

ContextNames == [i \in 1..Len(settings.contexts) |-> settings.contexts[i].name]

ContextNamesSet == Range(ContextNames)

OptionNames(method) == [i \in 1..Len(method.reviewOptions) |-> method.reviewOptions[i].name]

\* mutant: the defaults written are those of the first registered method
OnboardUpdatesFirst(method, nowFormatted) ==
    Updates((FM_INTERVAL :> settings.spacingMethods[1].defaultInterval) @@
            (FM_LAST_REVIEWED :> nowFormatted) @@
            (FM_EASE :> settings.spacingMethods[1].defaultEaseFactor) @@
            (FM_METHOD :> method.name))

OnboardUpdates(method, nowFormatted) ==
    Updates((FM_INTERVAL :> method.defaultInterval) @@ (FM_LAST_REVIEWED :> nowFormatted) @@
            (FM_EASE :> method.defaultEaseFactor) @@ (FM_METHOD :> method.name))

\* mutant: the interval is left on the note
RemoveUpdatesPartial == [set |-> EmptyFm, del |-> {FM_EASE, FM_LAST_REVIEWED, FM_CONTEXTS}]

RemoveUpdates == [set |-> EmptyFm, del |-> {FM_INTERVAL, FM_EASE, FM_LAST_REVIEWED, FM_CONTEXTS}]

ReviewUpdates(calc, nowFormatted) ==
    Updates((FM_INTERVAL :> calc.newInterval) @@ (FM_EASE :> calc.newEaseFactor) @@
            (FM_LAST_REVIEWED :> nowFormatted))

\* toggleNoteContexts, after the choice
ToggledContexts(frontmatter, selectedContext) ==
    LET currentContexts == Get(frontmatter, FM_CONTEXTS, <<>>)
        Other(x) == x # selectedContext
        updatedContexts == SelectSeq(currentContexts, Other)
    IN IF selectedContext \in Range(currentContexts)
       THEN updatedContexts
       ELSE Append(updatedContexts, selectedContext)

\* onboardNoteToSpacedEverything from the choice of the spacing method on
OnboardMethod(file, start, nowFormatted, q) ==
    IF Len(settings.spacingMethods) = 1
    THEN /\ Process("review", file, OnboardRes(settings.spacingMethods[1], start), NoCalc,
                    QueueAdd(q, file, OnboardUpdates(settings.spacingMethods[1], nowFormatted)))
         /\ notices' = <<"Onboarded note to Spaced Everything">>
    ELSE /\ task' = [task EXCEPT !["review"] =
                        [pc |-> "onbMethod", file |-> file, start |-> start,
                         nowFormatted |-> nowFormatted, choices |-> MethodNames]]
         /\ queue' = q
         /\ notices' = <<>>

\* logReviewOutcome up to its first prompt
ReviewBegin(file) ==
    /\ CanStart("review")
    /\ IsFile(file)
    /\ ncmd' = ncmd + 1
    /\ LET nowFormatted == formatTimestamp(now, settings.timestampTimeZone, tz)
           frontmatter == fm[file]
           found == getActiveSpacingMethod(frontmatter)
           method == settings.spacingMethods[found.index]
           \* the step right before, when it ended a command on a note
           Prev == IF obs.op \in {"dismiss", "cancel", "scoreError", "write"} THEN obs ELSE NoObs
       IN IF Has(frontmatter, FM_INTERVAL)
          THEN IF found.how = "crash"
               THEN /\ task' = task
                    /\ queue' = queue
                    /\ notices' = <<>>
                    /\ obs' = [op |-> "resolve", file |-> file, how |-> "crash",
                               name |-> Undefined, prev |-> Prev]
               ELSE /\ task' = [task EXCEPT !["review"] =
                                   [pc |-> "prompt", file |-> file, method |-> method,
                                    res |-> [how |-> found.how, name |-> method.name],
                                    nowFormatted |-> nowFormatted,
                                    choices |-> Append(OptionNames(method), "Remove")]]
                    /\ queue' = IF found.how = "method" THEN queue
                                ELSE QueueAdd(queue, file, Updates(FM_METHOD :> method.name))
                    /\ notices' = IF found.how = "method" THEN <<>> ELSE <<"Set se-method">>
                    /\ obs' = [op |-> "resolve", file |-> file, how |-> found.how,
                               name |-> method.name, prev |-> Prev]
          ELSE /\ obs' = [op |-> "onboard", file |-> file]
               /\ IF Len(settings.contexts) = 0
                  THEN OnboardMethod(file, now, nowFormatted, queue)
                  ELSE /\ task' = [task EXCEPT !["review"] =
                                      [pc |-> "onbCtx", file |-> file, frontmatter |-> frontmatter,
                                       start |-> now, nowFormatted |-> nowFormatted,
                                       choices |-> ContextNames]]
                       /\ queue' = queue
                       /\ notices' = <<>>
    /\ UNCHANGED <<settings, fm, now, tz>>

\* the user chooses a review outcome
ReviewChoose(reviewResult) ==
    /\ task["review"].pc = "prompt"
    /\ reviewResult \in Range(task["review"].choices)
    /\ LET r == task["review"]
           Named(o) == o.name = reviewResult
           selectedOption == r.method.reviewOptions[Find(r.method.reviewOptions, Named)]
       IN IF reviewResult = ""
          THEN /\ task' = [task EXCEPT !["review"] = Idle]
               /\ queue' = queue
               /\ notices' = <<"Spaced Everything review cancelled by user">>
               /\ obs' = [op |-> "cancel", by |-> "review", file |-> r.file, res |-> r.res]
          ELSE IF reviewResult = "Remove"
          THEN /\ Process("review", r.file, r.res, RemoveCalc,
                          QueueAdd(queue, r.file, RemoveUpdates))
               /\ notices' = <<"Removed note from Spaced Everything">>
               /\ obs' = [op |-> "remove", file |-> r.file]
          ELSE IF selectedOption.score = NoScore
          THEN /\ task' = [task EXCEPT !["review"] = Idle]
               /\ queue' = queue
               /\ notices' = <<"Error: Review option score is not set in settings. Please set a score for the selected review option">>
               /\ obs' = [op |-> "scoreError", by |-> "review", file |-> r.file, res |-> r.res]
          ELSE /\ task' = [task EXCEPT !["review"] =
                              [pc |-> "sm2", file |-> r.file, method |-> r.method,
                               res |-> r.res, nowFormatted |-> r.nowFormatted,
                               reviewScore |-> selectedOption.score]]
               /\ queue' = queue
               /\ notices' = <<>>
               /\ obs' = NoObs
    /\ UNCHANGED <<settings, fm, now, tz, ncmd>>

\* updateInterval: the callback given to processFrontMatter runs
ReviewCallback ==
    /\ task["review"].pc = "sm2"
    /\ IsFile(task["review"].file)
    /\ LET r == task["review"]
           calc == computeInterval(fm[r.file], r.reviewScore, r.method)
       IN /\ task' = [task EXCEPT !["review"] =
                         [pc |-> "sm2done", file |-> r.file, res |-> r.res,
                          nowFormatted |-> r.nowFormatted, calc |-> calc]]
          /\ obs' = [op |-> "updateInterval", file |-> r.file, calc |-> calc]
    /\ notices' = <<>>
    /\ UNCHANGED <<settings, fm, queue, now, tz, ncmd>>

\* updateInterval: processFrontMatter of a file that is gone rejects, and the
\* exception ends logReviewOutcome
ReviewRejects ==
    /\ task["review"].pc = "sm2"
    /\ ~IsFile(task["review"].file)
    /\ task' = [task EXCEPT !["review"] = Idle]
    /\ obs' = [op |-> "exception", by |-> "review", file |-> task["review"].file]
    /\ notices' = <<>>
    /\ UNCHANGED <<settings, fm, queue, now, tz, ncmd>>

\* updateInterval after the await: the new values are queued, and
\* logReviewOutcome goes on to process the queue
ReviewQueue ==
    /\ task["review"].pc = "sm2done"
    /\ LET r == task["review"]
       IN Process("review", r.file, r.res, r.calc,
                  QueueAdd(queue, r.file, ReviewUpdates(r.calc, r.nowFormatted)))
    /\ notices' = <<"Interval updated">>
    /\ obs' = NoObs
    /\ UNCHANGED <<settings, fm, now, tz, ncmd>>

\* onboarding: the user chooses a context to toggle
OnboardChooseContext(selectedContext) ==
    /\ task["review"].pc = "onbCtx"
    /\ selectedContext \in Range(task["review"].choices)
    /\ LET r == task["review"]
       IN OnboardMethod(r.file, r.start, r.nowFormatted,
                        QueueAdd(queue, r.file,
                                 Updates(FM_CONTEXTS :> ToggledContexts(r.frontmatter, selectedContext))))
    /\ obs' = NoObs
    /\ UNCHANGED <<settings, fm, now, tz, ncmd>>

\* onboarding: the user chooses a spacing method
OnboardChooseMethod(selectedMethod) ==
    /\ task["review"].pc = "onbMethod"
    /\ selectedMethod \in Range(task["review"].choices)
    /\ LET r == task["review"]
           activeSpacingMethod == settings.spacingMethods[FindMethod(selectedMethod)]
       IN IF selectedMethod = ""
          THEN /\ Process("review", r.file, NoRes, NoCalc, queue)
               /\ notices' = <<"Onboarding cancelled by user.">>
               /\ obs' = [op |-> "cancel", by |-> "onboard", file |-> r.file]
          ELSE /\ Process("review", r.file, OnboardRes(activeSpacingMethod, r.start), NoCalc,
                          QueueAdd(queue, r.file, OnboardUpdates(activeSpacingMethod, r.nowFormatted)))
               /\ notices' = <<"Onboarded note to Spaced Everything">>
               /\ obs' = [op |-> "onboarded", file |-> r.file, name |-> activeSpacingMethod.name]
    /\ UNCHANGED <<settings, fm, now, tz, ncmd>>


-----------------------------------------------------------------------------
(* toggleNoteContextsWrapper *)

ToggleBegin(file) ==
    /\ CanStart("toggle")
    /\ IsFile(file)
    /\ ncmd' = ncmd + 1
    /\ IF Len(settings.contexts) = 0
       THEN /\ Process("toggle", file, NoRes, NoCalc, queue)
            /\ notices' = <<"Spaced Everything: No contexts defined">>
       ELSE /\ task' = [task EXCEPT !["toggle"] =
                           [pc |-> "prompt", file |-> file, frontmatter |-> fm[file],
                            choices |-> ContextNames]]
            /\ queue' = queue
            /\ notices' = <<>>
    /\ obs' = NoObs
    /\ UNCHANGED <<settings, fm, now, tz>>

ToggleChoose(selectedContext) ==
    /\ task["toggle"].pc = "prompt"
    /\ selectedContext \in Range(task["toggle"].choices)
    /\ LET r == task["toggle"]
       IN Process("toggle", r.file, NoRes, NoCalc,
                  QueueAdd(queue, r.file,
                           Updates(FM_CONTEXTS :> ToggledContexts(r.frontmatter, selectedContext))))
    /\ notices' = <<>>
    /\ obs' = NoObs
    /\ UNCHANGED <<settings, fm, now, tz, ncmd>>

-----------------------------------------------------------------------------
(* updateSpacingMethod *)

UpdateBegin(file) ==
    /\ CanStart("update")
    /\ IsFile(file)
    /\ ncmd' = ncmd + 1
    /\ task' = [task EXCEPT !["update"] = [pc |-> "prompt", file |-> file, choices |-> MethodNames]]
    /\ obs' = NoObs
    /\ notices' = <<>>
    /\ UNCHANGED <<settings, fm, queue, now, tz>>

\* the user chooses a spacing method: the update is queued and the command
\* returns
UpdateChoose(selectedMethod) ==
    /\ task["update"].pc = "prompt"
    /\ selectedMethod \in Range(task["update"].choices)
    /\ task' = [task EXCEPT !["update"] = Idle]
    /\ IF selectedMethod = ""
       THEN /\ queue' = queue
            /\ notices' = <<"Spacing method update cancelled by user.">>
            /\ obs' = [op |-> "cancel", by |-> "update", file |-> task["update"].file]
       ELSE /\ queue' = QueueAdd(queue, task["update"].file, Updates(FM_METHOD :> selectedMethod))
            /\ notices' = <<"Updated spacing method">>
            /\ obs' = [op |-> "updated", by |-> "update", file |-> task["update"].file,
                       name |-> selectedMethod]
    /\ UNCHANGED <<settings, fm, now, tz, ncmd>>

-----------------------------------------------------------------------------
(* openNextReviewItem: it has no await point *)

\* mutant: find-next writes the queued updates before it reads the notes
openNextReviewItemProcessing ==
    /\ NoPrompt
    /\ AllIdle
    /\ obs' = [op |-> "openNext", passed |-> filterNotesByContext(Files),
               pages |-> filteredPages,
               lastReviewed |-> [n \in Notes |-> lastReviewedOf(fm[n])],
               opened |-> IF filteredPages = <<>> THEN "none" ELSE filteredPages[1]]
    /\ notices' = <<>>
    /\ queue' = <<>>
    /\ fm' = [n \in DOMAIN fm |->
                 IF QueueIndex(queue, n) = 0 THEN fm[n]
                 ELSE ApplyUpdates(fm[n], queue[QueueIndex(queue, n)].upd)]
    /\ UNCHANGED <<settings, now, tz, task, ncmd>>

openNextReviewItem ==
    /\ NoPrompt
    /\ obs' = [op |-> "openNext", passed |-> filterNotesByContext(Files),
               pages |-> filteredPages,
               lastReviewed |-> [n \in Notes |-> lastReviewedOf(fm[n])],
               opened |-> IF filteredPages = <<>> THEN "none" ELSE filteredPages[1]]
    /\ notices' =
          (IF Len(settings.contexts) > 0 /\ activeContexts = {}
           THEN <<"Spaced everything: No active contexts">> ELSE <<>>) \o
          (IF filteredPages = <<>>
           THEN <<"No notes to review, enjoy some fresh air!">> ELSE <<>>)
    /\ UNCHANGED <<settings, fm, queue, now, tz, task, ncmd>>

-----------------------------------------------------------------------------
(* The vault: a note is deleted or renamed, in the application or by       *)
(* another program, and its path is a file no more.                        *)

DeleteFile(path) ==
    /\ IsFile(path)
    /\ fm' = [n \in DOMAIN fm \ {path} |-> fm[n]]
    /\ obs' = [op |-> "deleted", path |-> path]
    /\ notices' = <<>>
    /\ UNCHANGED <<settings, queue, now, tz, task, ncmd>>

-----------------------------------------------------------------------------
(* The clock *)

\* the instants the clock is read at: on a day boundary, one tick after it
\* and one second after it
Instants == {d * TicksPerDay + e : d \in 0..MaxDays, e \in {0, 1, TicksPerSecond}}

Tick(t) ==
    /\ t \in Instants
    /\ t > now
    /\ now' = t
    /\ obs' = NoObs
    /\ notices' = <<>>
    /\ UNCHANGED <<settings, fm, queue, tz, task, ncmd>>

-----------------------------------------------------------------------------
(* The settings tab.  Settings are edited between commands. *)

CanEdit == AllIdle /\ ncmd < MaxCommands

Edit(new) ==
    /\ CanEdit
    /\ settings' = new
    /\ ncmd' = ncmd + 1
    /\ obs' = NoObs
    /\ notices' = <<>>
    /\ UNCHANGED <<fm, queue, now, tz, task>>

\* the toggle of a context
SetContextActive(index, value) ==
    /\ index \in 1..Len(settings.contexts)
    /\ value # settings.contexts[index].isActive
    /\ Edit([settings EXCEPT !.contexts[index].isActive = value])

\* the delete button of a context
DeleteContext(index) ==
    /\ index \in 1..Len(settings.contexts)
    /\ Edit([settings EXCEPT !.contexts = RemoveAt(@, index)])

\* the dropdown that binds a context to a spacing method
SetContextSpacingMethod(index, value) ==
    /\ index \in 1..Len(settings.contexts)
    /\ value \in Range(MethodNames)
    /\ value # settings.contexts[index].spacingMethodName
    /\ Edit([settings EXCEPT !.contexts[index].spacingMethodName = value])

MethodNumber(n) == <<"Spacing method #1", "Spacing method #2", "Spacing method #3",
                     "Spacing method #4", "Spacing method #5", "Spacing method #6",
                     "Spacing method #7", "Spacing method #8">>[n]

\* the button 'Add spacing method'
AddSpacingMethod ==
    Edit([settings EXCEPT !.spacingMethods =
             Append(@, Method(MethodNumber(Len(@) + 1), <<>>, DefaultInterval, DefaultEaseFactor))])

\* mutant: the last spacing method is deleted like any other
DeleteSpacingMethodAny(index) ==
    /\ index \in 1..Len(settings.spacingMethods)
    /\ Edit([settings EXCEPT !.spacingMethods = RemoveAt(@, index)])

\* the delete button of a spacing method
DeleteSpacingMethod(index) ==
    /\ index \in 1..Len(settings.spacingMethods)
    /\ IF Len(settings.spacingMethods) = 1
       THEN /\ CanEdit
            /\ ncmd' = ncmd + 1
            /\ obs' = [op |-> "deleteRefused", was |-> settings.spacingMethods]
            /\ notices' = <<"Cannot delete the last spacing method">>
            /\ UNCHANGED <<settings, fm, queue, now, tz, task>>
       ELSE Edit([settings EXCEPT !.spacingMethods = RemoveAt(@, index)])

\* the 'Name' field of a spacing method
RenameSpacingMethod(index, value) ==
    /\ index \in 1..Len(settings.spacingMethods)
    /\ LET name == IF value = "" THEN MethodNumber(index) ELSE value
       IN /\ name # settings.spacingMethods[index].name
          /\ Edit([settings EXCEPT !.spacingMethods[index].name = name])

\* what is typed into a numeric field of the settings tab
NumericInputs == {"", "abc", "-1", "0", "1", "1.2", "3", "5", "6"}

\* parseFloat of a typed value, as a fixed-point number
parseFloat(value) ==
    CASE value = "-1" -> -Scale
      [] value = "0" -> 0
      [] value = "1" -> Scale
      [] value = "1.2" -> (12 * Scale) \div 10
      [] value = "3" -> 3 * Scale
      [] value = "5" -> 5 * Scale
      [] value = "6" -> 6 * Scale
      [] OTHER -> NaN

\* a field of the settings tab refuses the value typed
Refuse(notice) ==
    /\ CanEdit
    /\ ncmd' = ncmd + 1
    /\ obs' = [op |-> "refused"]
    /\ notices' = <<notice>>
    /\ UNCHANGED <<settings, fm, queue, now, tz, task>>

\* the button '+' of the review options of a spacing method
AddReviewOption(index) ==
    /\ index \in 1..Len(settings.spacingMethods)
    /\ Edit([settings EXCEPT !.spacingMethods[index].reviewOptions = Append(@, Option("", 0))])

\* the 'Name' field of a review option
SetReviewOptionName(index, optionIndex, value) ==
    /\ index \in 1..Len(settings.spacingMethods)
    /\ optionIndex \in 1..Len(settings.spacingMethods[index].reviewOptions)
    /\ value # settings.spacingMethods[index].reviewOptions[optionIndex].name
    /\ Edit([settings EXCEPT !.spacingMethods[index].reviewOptions[optionIndex].name = value])

\* the 'Review score' field of a review option; the scores of the model are
\* whole numbers
SetReviewOptionScore(index, optionIndex, value) ==
    /\ index \in 1..Len(settings.spacingMethods)
    /\ optionIndex \in 1..Len(settings.spacingMethods[index].reviewOptions)
    /\ parseFloat(value) = NaN \/ parseFloat(value) % Scale = 0
    /\ LET numericValue == parseFloat(value)
           accepted == IF value = "" THEN TRUE
                       ELSE numericValue # NaN /\ numericValue >= 0 /\ numericValue <= 5 * Scale
           score == IF numericValue = NaN THEN NaN ELSE numericValue \div Scale
       IN IF accepted
          THEN Edit([settings EXCEPT
                        !.spacingMethods[index].reviewOptions[optionIndex].score = score])
          ELSE Refuse("Review score must be a number from 0 to 5")

\* the delete button of a review option
DeleteReviewOption(index, optionIndex) ==
    /\ index \in 1..Len(settings.spacingMethods)
    /\ optionIndex \in 1..Len(settings.spacingMethods[index].reviewOptions)
    /\ Edit([settings EXCEPT !.spacingMethods[index].reviewOptions = RemoveAt(@, optionIndex)])

\* the 'Default interval' field of a spacing method
SetDefaultInterval(index, value) ==
    /\ index \in 1..Len(settings.spacingMethods)
    /\ LET numericValue == parseFloat(value)
       IN IF numericValue # NaN
          THEN /\ numericValue # settings.spacingMethods[index].defaultInterval
               /\ Edit([settings EXCEPT !.spacingMethods[index].defaultInterval = numericValue])
          ELSE Refuse("Default interval must be a number.")

\* the 'Default ease factor' field of a spacing method
SetDefaultEaseFactor(index, value) ==
    /\ index \in 1..Len(settings.spacingMethods)
    /\ LET numericValue == parseFloat(value)
       IN IF numericValue # NaN
          THEN /\ numericValue # settings.spacingMethods[index].defaultEaseFactor
               /\ Edit([settings EXCEPT !.spacingMethods[index].defaultEaseFactor = numericValue])
          ELSE Refuse("Default ease factor must be a number.")

\* the dropdown 'Spacing algorithm' of a spacing method
SetSpacingAlgorithm(index, value) ==
    /\ index \in 1..Len(settings.spacingMethods)
    /\ value \in {"SuperMemo2.0", "Custom"}
    /\ value # settings.spacingMethods[index].spacingAlgorithm
    /\ Edit([settings EXCEPT !.spacingMethods[index].spacingAlgorithm = value])

\* the folders of the vault: file.parent.path of every note, and the parent
\* of every folder up to the root, whose parent is null
FolderOf == [n \in Notes |-> IF n = "n1" THEN "/"
                             ELSE IF n = "n2" THEN "templates" ELSE "templates/daily"]

NoFolder == "<null>"

ParentOf(folder) ==
    IF folder = "templates/daily" THEN "templates"
    ELSE IF folder = "templates" THEN "/"
    ELSE NoFolder

\* mutant: only the folder the note is in is compared
isFileExcludedDirect(file) ==
    FolderOf[file] \in Range(settings.onboardingExcludedFolders)

RECURSIVE ExcludedFrom(_)
ExcludedFrom(parent) ==
    IF parent = NoFolder THEN FALSE
    ELSE IF parent \in Range(settings.onboardingExcludedFolders) THEN TRUE
    ELSE ExcludedFrom(ParentOf(parent))

isFileExcluded(file) == ExcludedFrom(FolderOf[file])

\* the text area 'Excluded folders': value.trim().split('\n').filter(v => v),
\* the value typed given as its lines
SetExcludedFolders(lines) ==
    /\ SelectSeq(lines, LAMBDA v : v # "") # settings.onboardingExcludedFolders
    /\ Edit([settings EXCEPT !.onboardingExcludedFolders = SelectSeq(lines, LAMBDA v : v # "")])

\* new Date().toISOString().split('.')[0]: UTC wall clock without a zone
BareNow == Stamp(now \div TicksPerSecond, "bare", 0)

\* mutant: the defaults are written over the values of the note
addFrontMatterPropertiesToNoteOver(frontMatter) ==
    (FM_INTERVAL :> settings.spacingMethods[1].defaultInterval) @@
    (FM_LAST_REVIEWED :> BareNow) @@
    (FM_EASE :> settings.spacingMethods[1].defaultEaseFactor) @@
    frontMatter

\* addFrontMatterPropertiesToNote: the three keys are set, to the value the
\* note has when it has one that is not falsy
addFrontMatterPropertiesToNote(frontMatter) ==
    (FM_INTERVAL :> OrElse(Get(frontMatter, FM_INTERVAL, 0),
                           settings.spacingMethods[1].defaultInterval)) @@
    (FM_LAST_REVIEWED :> Get(frontMatter, FM_LAST_REVIEWED, BareNow)) @@
    (FM_EASE :> OrElse(Get(frontMatter, FM_EASE, 0),
                       settings.spacingMethods[1].defaultEaseFactor)) @@
    frontMatter

\* 'Onboard all notes', confirmed in its modal: the modal stays open until
\* every note is written.  Without a spacing method the first note that is
\* not excluded throws.
OnboardAll ==
    /\ CanEdit
    /\ ncmd' = ncmd + 1
    /\ IF Len(settings.spacingMethods) = 0 /\ \E n \in Notes : ~isFileExcluded(n)
       THEN /\ fm' = fm
            /\ notices' = <<>>
            /\ obs' = [op |-> "onboardAll", crash |-> TRUE, was |-> fm]
       ELSE /\ fm' = [n \in Notes |-> IF isFileExcluded(n) THEN fm[n]
                                      ELSE addFrontMatterPropertiesToNote(fm[n])]
            /\ notices' = <<"All notes onboarded">>
            /\ obs' = [op |-> "onboardAll", crash |-> FALSE, was |-> fm]
    /\ UNCHANGED <<settings, queue, now, tz, task>>

\* JSON.stringify writes NaN as null
Saved(method) ==
    [method EXCEPT !.reviewOptions =
        [i \in 1..Len(@) |-> IF @[i].score = NaN THEN Option(@[i].name, NoScore) ELSE @[i]]]

\* the plugin is loaded again: the settings are those of data.json, and the
\* queue of updates is a new one
Reload ==
    /\ CanEdit
    /\ settings' = [settings EXCEPT !.spacingMethods = [i \in 1..Len(@) |-> Saved(@[i])]]
    /\ queue' = <<>>
    /\ ncmd' = ncmd + 1
    /\ obs' = [op |-> "reload"]
    /\ notices' = <<>>
    /\ UNCHANGED <<fm, now, tz, task>>


-----------------------------------------------------------------------------
(* Specification SpecSM2: reviews of one onboarded note, for every score   *)
(* and a range of stored intervals and ease factors.                       *)

ScoreOptions == <<Option("q0", 0), Option("q1", 1), Option("q2", 2),
                  Option("q3", 3), Option("q4", 4), Option("q5", 5)>>

PriorIntervals == {0, 5000, 10000, 10001, 15000, 26000}
PriorEases == {0, 12000, 13000, 13001, 20600, 25000, 26000}

Onboarded(interval, ease, lastReviewed) ==
    (FM_INTERVAL :> interval) @@ (FM_EASE :> ease) @@ (FM_LAST_REVIEWED :> lastReviewed)

InitSM2 ==
    /\ settings = [spacingMethods |-> <<Method("SM2", ScoreOptions, DefaultInterval,
                                               DefaultEaseFactor)>>,
                   contexts |-> <<>>, timestampTimeZone |-> "UTC"]
    /\ \E i \in PriorIntervals, e \in PriorEases :
          fm = [n \in Notes |-> IF n = "n1"
                                THEN Onboarded(i, e, Stamp(0, "Z", 0)) @@ (FM_METHOD :> "SM2")
                                ELSE EmptyFm]
    /\ queue = <<>>
    /\ now = 0
    /\ tz = 0
    /\ task = [c \in Cmds |-> Idle]
    /\ notices = <<>>
    /\ obs = NoObs
    /\ ncmd = 0

NextSM2 ==
    \/ ReviewBegin("n1")
    \/ \E x \in Range(OptionNames(settings.spacingMethods[1])) \cup {"Remove"} : ReviewChoose(x)
    \/ ReviewCallback
    \/ ReviewQueue
    \/ WriteCallback("review")
    \/ Dismiss("review")

SpecSM2 == InitSM2 /\ [][NextSM2]_vars

-----------------------------------------------------------------------------
(* Claims on the Interval Update Engine *)

\* the reference: the change of the ease factor for each review score 0..5
RefDelta == <<-8000, -5400, -3200, -1400, 0, 1000>>

RefEase(priorEase, r) ==
    IF priorEase + RefDelta[r + 1] < 13000 THEN 13000 ELSE priorEase + RefDelta[r + 1]

\* priorInterval * ease rounded to 4 decimals, both factors split in their
\* whole and fractional parts
RefProduct(a, b) ==
    LET ah == a \div 10000   al == a % 10000
        bh == b \div 10000   bl == b % 10000
    IN ah * bh * 10000 + ah * bl + al * bh + ((al * bl + 5000) \div 10000)

RefInterval(priorInterval, ease, r) ==
    IF r < 3 THEN 10000
    ELSE IF RefProduct(priorInterval, ease) < 10000 THEN 10000
    ELSE RefProduct(priorInterval, ease)

\* C1: updateInterval returns the reference result for every score 0..5 and
\* every prior interval and ease: newEase = max(1.3, priorEase + delta(r)),
\* newInterval = round4(max(1, priorInterval * newEase)), and 1 when r < 3;
\* (1, 2.5) with r = 5 gives (2.6, 2.6) and (2.6, 2.6) with r = 1 gives (1, 2.06)
C1_UpdateMatchesReference ==
    obs.op = "updateInterval" =>
        LET c == obs.calc
        IN /\ c.reviewScore \in 0..5
           /\ c.newEaseFactor = RefEase(c.prevEaseFactor, c.reviewScore)
           /\ c.newInterval = RefInterval(c.prevInterval, c.newEaseFactor, c.reviewScore)
           /\ (c.prevInterval = 10000 /\ c.prevEaseFactor = 25000 /\ c.reviewScore = 5
                  => c.newInterval = 26000 /\ c.newEaseFactor = 26000)
           /\ (c.prevInterval = 26000 /\ c.prevEaseFactor = 26000 /\ c.reviewScore = 1
                  => c.newInterval = 10000 /\ c.newEaseFactor = 20600)

\* the second review of the example: (2.6, 2.6) reviewed with score 1
C1_Witness ==
    /\ obs.op = "updateInterval"
    /\ obs.calc.prevInterval = 26000 /\ obs.calc.prevEaseFactor = 26000
    /\ obs.calc.reviewScore = 1
    /\ ncmd > 1

\* C2: when a review with a score below 3 is written to the note, the
\* interval of the note is exactly 1
C2_LowScoreIntervalIsOne ==
    (obs.op = "write" /\ obs.by = "review" /\ obs.path = obs.file
       /\ obs.calc.reviewScore \in 0..2)
    => fm[obs.path][FM_INTERVAL] = 10000

\* a low score written over a prior interval and ease whose product is not 1
C2_Witness ==
    /\ obs.op = "write" /\ obs.by = "review" /\ obs.path = obs.file
    /\ obs.calc.reviewScore \in 0..2
    /\ obs.calc.prevInterval = 26000
    /\ fm[obs.path][FM_INTERVAL] = 10000

\* C3: the ease computed by a review with a score in 0..5, and the ease
\* written to the note, are at least 1.3
C3_EaseAtLeastFloor ==
    /\ obs.op = "updateInterval" => obs.calc.newEaseFactor >= 13000
    /\ (obs.op = "write" /\ obs.by = "review" /\ obs.path = obs.file
          /\ obs.calc.reviewScore \in 0..5)
       => fm[obs.path][FM_EASE] >= 13000

\* a lowest-score review of a note whose ease is already at the floor
C3_Witness ==
    /\ obs.op = "write" /\ obs.by = "review" /\ obs.path = obs.file
    /\ obs.calc.reviewScore = 0
    /\ obs.calc.prevEaseFactor = 13000
    /\ fm[obs.path][FM_EASE] = 13000
    /\ ncmd > 1


-----------------------------------------------------------------------------
(* Specification SpecQueue: find-next over vaults of three notes, with the *)
(* contexts of the settings toggled and deleted and the clock advancing.   *)

DayStamp(d, zone) == Stamp(d * 24 * 60 * 60, zone, 0)

QueueNotes ==
    { EmptyFm,
      (FM_LAST_REVIEWED :> DayStamp(0, "Z")) @@ (FM_CONTEXTS :> <<"X">>),
      (FM_INTERVAL :> 10000),
      (FM_INTERVAL :> 10000) @@ (FM_LAST_REVIEWED :> DayStamp(1, "Z")) @@ (FM_CONTEXTS :> <<"X">>),
      (FM_INTERVAL :> 20000) @@ (FM_LAST_REVIEWED :> DayStamp(0, "Z")) @@ (FM_CONTEXTS :> <<"Z", "Y">>),
      (FM_INTERVAL :> 10000) @@ (FM_LAST_REVIEWED :> DayStamp(0, "bare")) @@ (FM_CONTEXTS :> <<"Y">>),
      (FM_INTERVAL :> 20000) @@ (FM_LAST_REVIEWED :> DayStamp(1, "Z")) }

QueueContexts ==
    { <<>>,
      <<Context("X", FALSE, "")>>,
      <<Context("X", TRUE, ""), Context("Y", FALSE, "")>>,
      <<Context("X", FALSE, ""), Context("Y", FALSE, "")>> }

InitQueue ==
    /\ \E cs \in QueueContexts, z \in {"UTC", "Local"} :
          settings = [spacingMethods |-> <<Method("SM2", ScoreOptions, DefaultInterval,
                                                  DefaultEaseFactor)>>,
                      contexts |-> cs, timestampTimeZone |-> z]
    /\ fm \in [Notes -> QueueNotes]
    /\ queue = <<>>
    /\ now = 0
    /\ tz = 60
    /\ task = [c \in Cmds |-> Idle]
    /\ notices = <<>>
    /\ obs = NoObs
    /\ ncmd = 0

NextQueue ==
    \/ openNextReviewItem
    \/ \E t \in Instants : Tick(t)
    \/ \E i \in 1..Len(settings.contexts), v \in BOOLEAN : SetContextActive(i, v)
    \/ \E i \in 1..Len(settings.contexts) : DeleteContext(i)

SpecQueue == InitQueue /\ [][NextQueue]_vars

-----------------------------------------------------------------------------
(* Claims on the Due-Queue Builder *)

InQueue(n) == n \in Range(obs.pages)

Passed(n) == n \in Range(obs.passed)

\* the time a note was last reviewed, 0 without a last-reviewed value
RefLastReviewed(n) ==
    IF FM_LAST_REVIEWED \in DOMAIN fm[n]
    THEN parseTimestamp(fm[n][FM_LAST_REVIEWED], settings.timestampTimeZone, tz)
    ELSE 0

\* lastReviewedTime + interval * 86400000 ms, in ticks of 40 ms (the interval
\* is in units of 0.0001 day, 8640 ms)
RefDueTime(n) == RefLastReviewed(n) + fm[n][FM_INTERVAL] * ((86400000 \div 10000) \div 40)

RefDue(n) == FM_INTERVAL \in DOMAIN fm[n] /\ now > RefDueTime(n)

\* C4: a note that passed the context filter is in the due queue iff it is
\* onboarded and now > lastReviewedTime + interval days (strictly), a missing
\* last-reviewed counting as time 0; a note not onboarded is never queued
C4_DueFilter ==
    obs.op = "openNext" =>
        \A n \in Notes :
            /\ Passed(n) => (InQueue(n) <=> RefDue(n))
            /\ FM_INTERVAL \notin DOMAIN fm[n] => ~InQueue(n)

\* find-next at the very due time of a note (not queued), with a note that
\* was never reviewed (queued) and a note that is not onboarded
C4_Witness ==
    /\ obs.op = "openNext"
    /\ \E a, b, c \in Notes :
          /\ Passed(a) /\ FM_INTERVAL \in DOMAIN fm[a] /\ now = RefDueTime(a) /\ ~InQueue(a)
          /\ InQueue(b) /\ FM_LAST_REVIEWED \notin DOMAIN fm[b]
          /\ Passed(c) /\ FM_INTERVAL \notin DOMAIN fm[c] /\ FM_LAST_REVIEWED \in DOMAIN fm[c]

\* C5: the queue is in ascending order of due time, and the note opened is
\* its head, a due note of minimal due time among the due notes that passed
\* the filter; of three notes due at T1 < T2 < T3 with only T3 in the future
\* the queue is the first two in that order
C5_QueueOrder ==
    obs.op = "openNext" =>
        /\ \A i, j \in 1..Len(obs.pages) :
              i < j => RefDueTime(obs.pages[i]) <= RefDueTime(obs.pages[j])
        /\ obs.opened = (IF obs.pages = <<>> THEN "none" ELSE obs.pages[1])
        /\ \A n \in Notes :
              Passed(n) /\ RefDue(n) =>
                  /\ obs.opened \in Notes
                  /\ RefDue(obs.opened)
                  /\ RefDueTime(obs.opened) <= RefDueTime(n)
        /\ \A a, b, c \in Notes :
              (/\ Passed(a) /\ Passed(b) /\ Passed(c)
               /\ FM_INTERVAL \in DOMAIN fm[a] /\ FM_INTERVAL \in DOMAIN fm[b]
               /\ FM_INTERVAL \in DOMAIN fm[c]
               /\ RefDueTime(a) < RefDueTime(b) /\ RefDueTime(b) < now
               /\ now < RefDueTime(c))
              => obs.pages = <<a, b>>

\* three onboarded notes, the third not yet due, and the queue is the other
\* two in an order that is not the order of the vault
C5_Witness ==
    /\ obs.op = "openNext"
    /\ obs.pages = <<"n2", "n1">>
    /\ RefDueTime("n2") < RefDueTime("n1")
    /\ FM_INTERVAL \in DOMAIN fm["n3"] /\ Passed("n3") /\ now < RefDueTime("n3")

RefNoteContexts(n) == IF FM_CONTEXTS \in DOMAIN fm[n] THEN fm[n][FM_CONTEXTS] ELSE <<>>

RefActiveNames == {c.name : c \in {d \in Range(settings.contexts) : d.isActive}}

C7_NoContextsNoFilter ==
    (obs.op = "openNext" /\ Len(settings.contexts) = 0) =>
        \A n \in Notes : Passed(n) /\ (RefDue(n) => InQueue(n))

\* no context is registered and a due note tagged with a context is queued
C7_Witness ==
    /\ obs.op = "openNext" /\ Len(settings.contexts) = 0
    /\ \E n \in Notes : RefNoteContexts(n) # <<>> /\ InQueue(n)

HasNotice(text) == \E i \in 1..Len(notices) : notices[i] = text

\* C8: with contexts registered and none active find-next yields an empty
\* queue and the 'no active contexts' signal, and that outcome is distinct
\* from 'nothing due': the 'nothing due' message is not shown when a note
\* that is due was left out because no context is active
C8_NoActiveContextsDistinct ==
    (obs.op = "openNext" /\ Len(settings.contexts) > 0 /\ RefActiveNames = {}) =>
        /\ obs.pages = <<>>
        /\ HasNotice("Spaced everything: No active contexts")
        /\ (\E n \in Notes : RefDue(n)) => ~HasNotice("No notes to review, enjoy some fresh air!")


-----------------------------------------------------------------------------
(* Specification SpecResolve: reviews of a note whose method key and       *)
(* contexts refer to registered, unbound or missing methods and contexts,  *)
(* with the settings and the contexts of the note edited in between.       *)

TwoOptions == <<Option("Fruitful", 1), Option("Unfruitful", 5)>>

ResolveMethods == <<Method("A", TwoOptions, DefaultInterval, DefaultEaseFactor),
                    Method("B", TwoOptions, 20000, 20000)>>

ResolveContexts ==
    { <<Context("X", TRUE, "A"), Context("Y", FALSE, "B")>>,
      <<Context("X", TRUE, ""), Context("Y", TRUE, "B")>>,
      <<Context("X", FALSE, "Gone"), Context("Y", TRUE, "B")>> }

ResolveNotes ==
    { Onboarded(10000, 25000, DayStamp(0, "Z")) @@ k @@ c :
        k \in {EmptyFm, (FM_METHOD :> "B"), (FM_METHOD :> "Gone")},
        c \in {EmptyFm, (FM_CONTEXTS :> <<"X", "Y">>), (FM_CONTEXTS :> <<"Z", "Y">>)} }

InitResolve ==
    /\ \E cs \in ResolveContexts :
          settings = [spacingMethods |-> ResolveMethods, contexts |-> cs,
                      timestampTimeZone |-> "UTC"]
    /\ \E f \in ResolveNotes : fm = [n \in Notes |-> IF n = "n1" THEN f ELSE EmptyFm]
    /\ queue = <<>>
    /\ now = 0
    /\ tz = 0
    /\ task = [c \in Cmds |-> Idle]
    /\ notices = <<>>
    /\ obs = NoObs
    /\ ncmd = 0

NextResolve ==
    \/ ReviewBegin("n1")
    \/ \E x \in {"Fruitful", "Remove"} : ReviewChoose(x)
    \/ ReviewCallback
    \/ ReviewQueue
    \/ \E c \in Cmds : WriteCallback(c)
    \/ \E c \in Cmds : Dismiss(c)
    \/ \E x \in {"X", "Y"} : OnboardChooseContext(x)
    \/ \E x \in {"A", "B", "C"} : OnboardChooseMethod(x)
    \/ ToggleBegin("n1")
    \/ \E x \in {"X", "Y"} : ToggleChoose(x)
    \/ \E i \in 1..Len(settings.contexts), v \in {"A", "B"} : SetContextSpacingMethod(i, v)
    \/ \E i \in 1..Len(settings.contexts), v \in BOOLEAN : SetContextActive(i, v)
    \/ AddSpacingMethod
    \/ \E i \in 1..Len(settings.spacingMethods) : DeleteSpacingMethod(i)
    \/ \E i \in 1..Len(settings.spacingMethods), v \in {"A", "C"} : RenameSpacingMethod(i, v)

SpecResolve == InitResolve /\ [][NextResolve]_vars


-----------------------------------------------------------------------------
(* Claims on the resolution of the spacing method, under SpecResolve       *)

\* the names of the registered spacing methods
RegisteredMethods == {settings.spacingMethods[i].name : i \in 1..Len(settings.spacingMethods)}

\* the registered method the se-method key of a note names, if any
KeyNamesMethod(n) == Has(fm[n], FM_METHOD) /\ fm[n][FM_METHOD] \in RegisteredMethods

\* the method name the first registered context called c is bound to
RefBinding(c) ==
    LET at == {i \in 1..Len(settings.contexts) : settings.contexts[i].name = c}
    IN IF at = {} THEN ""
       ELSE settings.contexts[CHOOSE i \in at : \A j \in at : i <= j].spacingMethodName

\* the contexts of a note
RefContextsOf(n) == IF Has(fm[n], FM_CONTEXTS) THEN fm[n][FM_CONTEXTS] ELSE <<>>

\* the se-method value the queue holds for a note, Undefined if none
QueuedMethod(q, n) ==
    LET at == {i \in 1..Len(q) : q[i].path = n /\ FM_METHOD \in DOMAIN q[i].upd.set}
    IN IF at = {} THEN Undefined ELSE q[CHOOSE i \in at : TRUE].upd.set[FM_METHOD]

\* C9: a resolution on a note whose se-method key names a registered method
\* returns that method, whatever the contexts of the note, the bindings of
\* the contexts and the order and number of the registered methods have
\* become, and it changes neither the note nor the queue of updates
C9_StickyMethod ==
    [][(obs'.op = "resolve" /\ ncmd' = ncmd + 1 /\ KeyNamesMethod(obs'.file))
         => /\ obs'.how = "method"
            /\ obs'.name = fm[obs'.file][FM_METHOD]
            /\ fm' = fm
            /\ queue' = queue]_vars

\* a resolution by the key, after another command, on a note whose first
\* context is bound to another registered method while the method of the key
\* is not the first registered one
C9_Witness ==
    /\ obs.op = "resolve"
    /\ obs.how = "method"
    /\ ncmd >= 2
    /\ KeyNamesMethod(obs.file)
    /\ RefContextsOf(obs.file) # <<>>
    /\ RefBinding(RefContextsOf(obs.file)[1]) \in RegisteredMethods \ {fm[obs.file][FM_METHOD]}
    /\ settings.spacingMethods[1].name # fm[obs.file][FM_METHOD]
    /\ Len(settings.spacingMethods) # 2

\* C10: a resolution on a note whose se-method key is unset or names no
\* registered method, and which has contexts, looks at the first context
\* only: when that context is registered and bound to an existing method the
\* resolution returns that method and queues its name for the se-method key
\* of the note, and otherwise no later context decides; the review that runs
\* to its write leaves the name in the note
C10_FirstContext ==
    /\ (obs.op = "resolve" /\ ~KeyNamesMethod(obs.file) /\ RefContextsOf(obs.file) # <<>>)
         => LET bound == RefBinding(RefContextsOf(obs.file)[1])
            IN IF bound # "" /\ bound \in RegisteredMethods
               THEN /\ obs.how = "context"
                    /\ obs.name = bound
                    /\ QueuedMethod(queue, obs.file) = bound
               ELSE /\ obs.how \in {"unmapped", "crash"}
                    /\ obs.how = "unmapped" => obs.name = settings.spacingMethods[1].name
    /\ (obs.op = "write" /\ obs.by = "review" /\ obs.path = obs.file /\ obs.res.how = "context")
         => /\ Has(fm[obs.file], FM_METHOD)
            /\ fm[obs.file][FM_METHOD] = obs.res.name

\* a resolution by the first context, bound to a method that is not the first
\* registered one, while the second context is bound to another method
C10_Witness ==
    /\ obs.op = "resolve"
    /\ obs.how = "context"
    /\ Len(RefContextsOf(obs.file)) >= 2
    /\ RefBinding(RefContextsOf(obs.file)[2]) \in RegisteredMethods \ {obs.name}
    /\ obs.name # settings.spacingMethods[1].name
    /\ QueuedMethod(queue, obs.file) = obs.name

\* the review that resolved by the first context wrote the name to the note
C10_WitnessWritten ==
    /\ obs.op = "write" /\ obs.by = "review" /\ obs.path = obs.file
    /\ obs.res.how = "context"
    /\ fm[obs.file][FM_METHOD] = obs.res.name

\* a resolution that falls to the first registered method although a later
\* context of the note is bound to a registered method
C10_WitnessLater ==
    /\ obs.op = "resolve"
    /\ obs.how = "unmapped"
    /\ \E i \in 2..Len(RefContextsOf(obs.file)) :
          RefBinding(RefContextsOf(obs.file)[i]) \in RegisteredMethods \ {obs.name}


\* the first context of a note is bound to a registered method
FirstContextBound(n) ==
    /\ RefContextsOf(n) # <<>>
    /\ RefBinding(RefContextsOf(n)[1]) # ""
    /\ RefBinding(RefContextsOf(n)[1]) \in RegisteredMethods

Fallbacks == {"noContext", "unmapped"}

\* C11: a resolution on a note whose se-method key is unset or names no
\* registered method, and which has no contexts or whose first context is
\* unregistered, unbound or bound to a name that is not registered, returns
\* the first registered method and queues its name for the se-method key;
\* the review that runs to its write leaves that name in the note
C11_FallbackFirstMethod ==
    /\ (/\ obs.op = "resolve"
        /\ Len(settings.spacingMethods) > 0
        /\ ~KeyNamesMethod(obs.file)
        /\ ~FirstContextBound(obs.file))
         => /\ obs.how = (IF RefContextsOf(obs.file) = <<>> THEN "noContext" ELSE "unmapped")
            /\ obs.name = settings.spacingMethods[1].name
            /\ QueuedMethod(queue, obs.file) = settings.spacingMethods[1].name
    /\ (obs.op = "write" /\ obs.by = "review" /\ obs.path = obs.file /\ obs.res.how \in Fallbacks)
         => /\ Has(fm[obs.file], FM_METHOD)
            /\ fm[obs.file][FM_METHOD] = obs.res.name
            /\ obs.res.name = settings.spacingMethods[1].name

\* the review of a note whose first context is bound to a method name that is
\* not registered wrote the name of the first registered method to the note
C11_Witness ==
    /\ obs.op = "write" /\ obs.by = "review" /\ obs.path = obs.file
    /\ obs.res.how = "unmapped"
    /\ RefContextsOf(obs.file) # <<>>
    /\ RefBinding(RefContextsOf(obs.file)[1]) \notin RegisteredMethods \cup {""}
    /\ fm[obs.file][FM_METHOD] = settings.spacingMethods[1].name
    /\ Len(settings.spacingMethods) > 1

\* a resolution of a note right after the review command on that note ended
\* (dismissed, cancelled, aborted or written) having resolved its method
ResolvedAgain(o) ==
    /\ o.op = "resolve"
    /\ o.how # "crash"
    /\ o.prev.op \in {"dismiss", "cancel", "scoreError", "write"}
    /\ o.prev.by = "review"
    /\ o.prev.file = o.file
    /\ o.prev.res.how \in Fallbacks \cup {"context", "method"}
    /\ o.prev.op = "write" => o.prev.path = o.file /\ o.prev.calc # RemoveCalc

\* C12: a resolution that follows a resolution of the same note with nothing
\* in between but the end of the first command returns the same method, and
\* changes neither a note nor the queue of updates
C12_ResolveIdempotent ==
    [][(ncmd' = ncmd + 1 /\ ResolvedAgain(obs'))
         => /\ obs'.name = obs'.prev.res.name
            /\ fm' = fm
            /\ queue' = queue]_vars

\* the second resolution finds by the key what the first one, a fallback or
\* a context binding, wrote back
C12_Witness ==
    /\ ResolvedAgain(obs)
    /\ obs.prev.op = "write"
    /\ obs.prev.res.how \in Fallbacks \cup {"context"}
    /\ obs.how = "method"
    /\ obs.name = obs.prev.res.name
    /\ queue = <<>>

\* the second resolution follows a dismissed prompt: the update of the first
\* is still queued, and is queued once
C12_WitnessDismissed ==
    /\ ResolvedAgain(obs)
    /\ obs.prev.op = "dismiss"
    /\ obs.how \in Fallbacks \cup {"context"}
    /\ Len(queue) = 1

\* C13: with a spacing method registered every resolution returns a
\* registered method and the review goes on to its prompt, whatever the
\* se-method key and the contexts of the note name
C13_ResolveSucceeds ==
    (obs.op = "resolve" /\ Len(settings.spacingMethods) >= 1)
        => /\ obs.how # "crash"
           /\ obs.name \in RegisteredMethods
           /\ task["review"].pc = "prompt"
           /\ task["review"].method.name = obs.name

\* a resolution of a note whose key names no registered method and whose
\* first context is not registered
C13_Witness ==
    /\ obs.op = "resolve"
    /\ obs.how = "unmapped"
    /\ Has(fm[obs.file], FM_METHOD)
    /\ fm[obs.file][FM_METHOD] \notin RegisteredMethods
    /\ RefContextsOf(obs.file)[1] \notin ContextNamesSet
    /\ obs.name \in RegisteredMethods

\* C20: a spacing method is registered in every state that 'Add spacing
\* method' and the delete button lead to; the deletion of the last method is
\* refused, with a notice, and leaves the registry as it was
C20_AtLeastOneMethod ==
    /\ Len(settings.spacingMethods) >= 1
    /\ obs.op = "deleteRefused"
         => /\ settings.spacingMethods = obs.was
            /\ Len(obs.was) = 1
            /\ HasNotice("Cannot delete the last spacing method")

\* the deletion of the only method left was refused
C20_Witness ==
    /\ obs.op = "deleteRefused"
    /\ Len(settings.spacingMethods) = 1
    /\ ncmd >= 2


-----------------------------------------------------------------------------
(* Specification SpecLifecycle: notes are onboarded, reviewed and removed, *)
(* with no, one or two spacing methods registered (the settings tab of the *)
(* earlier version deleted the last method too, so stored settings may     *)
(* hold none); the contexts of another note are toggled meanwhile.         *)

LifeMethods ==
    { <<>>,
      <<Method("A", TwoOptions, DefaultInterval, DefaultEaseFactor)>>,
      ResolveMethods }

LifeContexts == { <<>>, <<Context("X", TRUE, ""), Context("Y", FALSE, "B")>> }

LifeNotes ==
    { Onboarded(10000, 25000, DayStamp(0, "Z")) @@ (FM_METHOD :> "A"),
      Onboarded(10000, 25000, DayStamp(0, "Z")) @@ (FM_CONTEXTS :> <<"X">>) }

InitLifecycle ==
    /\ \E ms \in LifeMethods, cs \in LifeContexts, z \in {"UTC", "Local"} :
          settings = [spacingMethods |-> ms, contexts |-> cs, timestampTimeZone |-> z]
    /\ \E f \in LifeNotes :
          fm = [n \in Notes |-> IF n = "n1" THEN f
                                ELSE IF n = "n2" THEN Onboarded(5000, 20000, DayStamp(0, "Z"))
                                ELSE EmptyFm]
    /\ queue = <<>>
    /\ now = TicksPerSecond
    /\ tz = 60
    /\ task = [c \in Cmds |-> Idle]
    /\ notices = <<>>
    /\ obs = NoObs
    /\ ncmd = 0

NextLifecycle ==
    \/ \E f \in {"n1", "n3"} : ReviewBegin(f)
    \/ \E x \in {"Fruitful", "Remove"} : ReviewChoose(x)
    \/ ReviewCallback
    \/ ReviewQueue
    \/ \E c \in Cmds : WriteCallback(c)
    \/ \E c \in Cmds : Dismiss(c)
    \/ \E x \in {"X", "Y"} : OnboardChooseContext(x)
    \/ \E x \in {"A", "B"} : OnboardChooseMethod(x)
    \/ ToggleBegin("n2")
    \/ \E x \in {"X", "Y"} : ToggleChoose(x)
    \/ Tick(TicksPerDay + TicksPerSecond)
    \/ AddSpacingMethod

SpecLifecycle == InitLifecycle /\ [][NextLifecycle]_vars


-----------------------------------------------------------------------------
(* Claims on the life of a note, under SpecLifecycle                       *)

\* C14: with no spacing method registered the review of an onboarded note
\* ends in the notice of the configuration error, not in an exception, and
\* changes no note and queues nothing
C14_NoMethodIsReported ==
    [][(obs'.op = "resolve" /\ ncmd' = ncmd + 1 /\ Len(settings.spacingMethods) = 0)
         => /\ obs'.how # "crash"
            /\ notices' = <<"Error: No active spacing method found for this note.">>
            /\ fm' = fm
            /\ queue' = queue]_vars

\* the review command on a note, written by its own process()
Wrote(kind) ==
    /\ obs.op = "write"
    /\ obs.by = "review"
    /\ obs.path = obs.file
    /\ kind = "onboard" => obs.res.how = "onboard"
    /\ kind = "remove" => obs.calc = RemoveCalc

-----------------------------------------------------------------------------
(* Specification SpecCancel: commands that the user gives up.  The review  *)
(* prompt of n1 is always dismissed, the review of n2 always ends on an    *)
(* option whose score is not set, and the onboarding of n3 is always       *)
(* dismissed at one of its prompts; the contexts of n2 are toggled, and    *)
(* contexts are switched on and off in the settings.  A command is started *)
(* when the one before has ended.                                          *)

CancelMethods ==
    <<Method("A", <<Option("Fruitful", 1)>>, DefaultInterval, DefaultEaseFactor),
      Method("B", <<Option("Unscored", NoScore)>>, 20000, 20000)>>

CancelContexts == <<Context("X", TRUE, "B"), Context("Y", FALSE, "")>>

InitCancel ==
    /\ settings = [spacingMethods |-> CancelMethods, contexts |-> CancelContexts,
                   timestampTimeZone |-> "UTC"]
    /\ \E k1 \in {EmptyFm, (FM_METHOD :> "A")},
          k2 \in {(FM_CONTEXTS :> <<"X">>), (FM_METHOD :> "B")} :
          fm = [n \in Notes |->
                   IF n = "n1" THEN Onboarded(10000, 25000, DayStamp(0, "Z")) @@ k1
                   ELSE IF n = "n2" THEN Onboarded(20000, 20000, DayStamp(0, "Z")) @@ k2
                   ELSE EmptyFm]
    /\ queue = <<>>
    /\ now = TicksPerSecond
    /\ tz = 0
    /\ task = [c \in Cmds |-> Idle]
    /\ notices = <<>>
    /\ obs = NoObs
    /\ ncmd = 0

NextCancel ==
    \/ AllIdle /\ \E f \in Notes : ReviewBegin(f)
    \/ ReviewChoose("Unscored")
    \/ task["review"].pc \in Prompts /\ task["review"].file # "n2" /\ Dismiss("review")
    \/ Dismiss("toggle")
    \/ \E x \in {"X", "Y"} : OnboardChooseContext(x)
    \/ AllIdle /\ ToggleBegin("n2")
    \/ \E x \in {"X", "Y"} : ToggleChoose(x)
    \/ \E c \in Cmds : WriteCallback(c)
    \/ \E i \in 1..Len(settings.contexts), v \in BOOLEAN : SetContextActive(i, v)

SpecCancel == InitCancel /\ [][NextCancel]_vars

-----------------------------------------------------------------------------
(* Claims on cancelled and aborted commands, under SpecCancel              *)

\* the keys of note n other than those in keys are what they were
KeepsKeys(n, keys) ==
    /\ DOMAIN fm'[n] \ keys = DOMAIN fm[n] \ keys
    /\ \A k \in DOMAIN fm[n] \ keys : fm'[n][k] = fm[n][k]

\* C16: the note whose onboarding is given up every time, at the choice of
\* the method at the latest, with two methods registered, never has a key
\* changed: not the contexts chosen in the onboarding either
C16_OnboardAbortNoMutation ==
    [][KeepsKeys("n3", {})]_vars

\* C18: the note whose review prompt is dismissed every time never has a key
\* changed, neither by the review command nor by a later command
C18_DismissIsNoOp ==
    [][KeepsKeys("n1", {})]_vars

\* C19: the review that ends on an option without a score shows the notice
\* of the configuration error and stops, and the note, whose reviews all end
\* so, never has a key changed other than the contexts the user toggles
C19_UnsetScoreAborts ==
    /\ [](obs.op = "scoreError" =>
            /\ Len(notices) = 1
            /\ task["review"] = Idle)
    /\ [][KeepsKeys("n2", {FM_CONTEXTS})]_vars


-----------------------------------------------------------------------------
(* Claims on the settings tab, under SpecResolve                           *)

\* the step renames the spacing method at index k and changes no other
\* field of the registry
Renames(k) ==
    /\ Len(settings'.spacingMethods) = Len(settings.spacingMethods)
    /\ k \in 1..Len(settings.spacingMethods)
    /\ settings'.spacingMethods[k].name # settings.spacingMethods[k].name
    /\ settings'.spacingMethods =
          [settings.spacingMethods EXCEPT ![k].name = settings'.spacingMethods[k].name]

\* C21: when a spacing method is renamed, every context that was bound to
\* its old name is bound to its new name after the rename
C21_RenameCascades ==
    [][\A k \in 1..Len(settings.spacingMethods) :
          Renames(k) =>
              \A i \in 1..Len(settings.contexts) :
                  settings.contexts[i].spacingMethodName = settings.spacingMethods[k].name
                      => /\ Len(settings'.contexts) = Len(settings.contexts)
                         /\ settings'.contexts[i].spacingMethodName =
                               settings'.spacingMethods[k].name]_vars

\* C22: no two registered spacing methods have the same name, in every state
\* that adding, deleting and renaming spacing methods lead to
C22_UniqueMethodNames ==
    \A i, j \in 1..Len(settings.spacingMethods) :
        i # j => settings.spacingMethods[i].name # settings.spacingMethods[j].name

\* C22, for the add and delete buttons alone: a step that does not rename a
\* method leaves the names distinct when they were
C22_AddKeepsUnique ==
    [][(C22_UniqueMethodNames /\ ~\E k \in 1..Len(settings.spacingMethods) : Renames(k))
          => C22_UniqueMethodNames']_vars


-----------------------------------------------------------------------------
(* Specification SpecOptions: the review options of the one spacing method *)
(* are added, named, scored and deleted in the settings tab, its spacing   *)
(* algorithm is selected, and the note is reviewed; the plugin is loaded   *)
(* again in between.                                                       *)

InitOptions ==
    /\ settings = [spacingMethods |-> <<Method("A", TwoOptions, DefaultInterval,
                                               DefaultEaseFactor)>>,
                   contexts |-> <<>>, timestampTimeZone |-> "UTC"]
    /\ \E i \in {10000, 26000} :
          fm = [n \in Notes |-> IF n = "n1"
                                THEN Onboarded(i, 25000, DayStamp(0, "Z")) @@ (FM_METHOD :> "A")
                                ELSE EmptyFm]
    /\ queue = <<>>
    /\ now = TicksPerSecond
    /\ tz = 0
    /\ task = [c \in Cmds |-> Idle]
    /\ notices = <<>>
    /\ obs = NoObs
    /\ ncmd = 0

NextOptions ==
    \/ AddReviewOption(1)
    \/ \E o \in 1..Len(settings.spacingMethods[1].reviewOptions) : SetReviewOptionName(1, o, "New")
    \/ \E o \in 1..Len(settings.spacingMethods[1].reviewOptions), v \in NumericInputs :
          SetReviewOptionScore(1, o, v)
    \/ \E o \in 1..Len(settings.spacingMethods[1].reviewOptions) : DeleteReviewOption(1, o)
    \/ \E v \in {"SuperMemo2.0", "Custom"} : SetSpacingAlgorithm(1, v)
    \/ Reload
    \/ ReviewBegin("n1")
    \/ \E x \in {"Fruitful", "Unfruitful", "New", ""} : ReviewChoose(x)
    \/ ReviewCallback
    \/ ReviewQueue
    \/ WriteCallback("review")
    \/ Dismiss("review")

SpecOptions == InitOptions /\ [][NextOptions]_vars

-----------------------------------------------------------------------------
(* Claims on the review options, under SpecOptions                         *)

\* C23: in every state the settings tab leads to, the score of every review
\* option is a number from 0 to 5, and the interval update is only called
\* with a score from 0 to 5
C23_ScoresInRange ==
    /\ \A i \in 1..Len(settings.spacingMethods) :
          \A o \in 1..Len(settings.spacingMethods[i].reviewOptions) :
              settings.spacingMethods[i].reviewOptions[o].score \in 0..5
    /\ obs.op = "updateInterval" => obs.calc.reviewScore \in 0..5

\* C23, the update alone: the interval update is only called with a score
\* from 0 to 5, and writes an interval and an ease that are numbers
C23_UpdateScoreInRange ==
    /\ obs.op = "updateInterval" => obs.calc.reviewScore \in 0..5
    /\ \A n \in Notes : Has(fm[n], FM_INTERVAL) => fm[n][FM_INTERVAL] # NaN


-----------------------------------------------------------------------------
(* Specification SpecDefaults: the defaults of two spacing methods and the *)
(* excluded folders are edited in the settings tab; notes are onboarded,   *)
(* one by one and all at once, and reviewed.  One note may have been given *)
(* its interval by hand, without an ease and a last-reviewed value.        *)

DefaultsNotes ==
    { EmptyFm,
      (FM_INTERVAL :> 10000) @@ (FM_METHOD :> "B"),
      Onboarded(30000, 20000, DayStamp(0, "Z")) @@ (FM_METHOD :> "B") }

ExcludedInputs == {<<>>, <<"templates">>, <<"templates/daily", "">>}

DefaultInputs == {"", "-1", "0", "1.2", "3"}

InitDefaults ==
    /\ \E ex \in {<<>>, <<"templates">>} :
          settings = [spacingMethods |-> ResolveMethods, contexts |-> <<>>,
                      timestampTimeZone |-> "UTC", onboardingExcludedFolders |-> ex]
    /\ \E f \in DefaultsNotes :
          fm = [n \in Notes |->
                   IF n = "n1" THEN Onboarded(10000, 25000, DayStamp(0, "Z")) @@ (FM_METHOD :> "A")
                   ELSE IF n = "n2" THEN f
                   ELSE EmptyFm]
    /\ queue = <<>>
    /\ now = TicksPerSecond
    /\ tz = 0
    /\ task = [c \in Cmds |-> Idle]
    /\ notices = <<>>
    /\ obs = NoObs
    /\ ncmd = 0

NextDefaults ==
    \/ \E f \in Notes : ReviewBegin(f)
    \/ \E x \in {"Fruitful", "Unfruitful"} : ReviewChoose(x)
    \/ ReviewCallback
    \/ ReviewQueue
    \/ WriteCallback("review")
    \/ Dismiss("review")
    \/ \E x \in {"A", "B"} : OnboardChooseMethod(x)
    \/ \E i \in 1..Len(settings.spacingMethods), v \in DefaultInputs : SetDefaultInterval(i, v)
    \/ \E i \in 1..Len(settings.spacingMethods), v \in DefaultInputs : SetDefaultEaseFactor(i, v)
    \/ \E v \in ExcludedInputs : SetExcludedFolders(v)
    \/ OnboardAll

SpecDefaults == InitDefaults /\ [][NextDefaults]_vars

-----------------------------------------------------------------------------
(* Claims on the defaults and on 'Onboard all notes', under SpecDefaults   *)

\* C24: in every state, whatever defaults are configured, the interval of
\* every onboarded note is positive and its ease, when it has one, is at
\* least 1.3
C24_StoredValuesInRange ==
    \A n \in Notes :
        Has(fm[n], FM_INTERVAL) =>
            /\ fm[n][FM_INTERVAL] > 0
            /\ Has(fm[n], FM_EASE) => fm[n][FM_EASE] >= MinEase

\* the spacing method that governs the review in flight
GoverningMethod ==
    LET named == {i \in 1..Len(settings.spacingMethods) :
                     settings.spacingMethods[i].name = task["review"].res.name}
    IN settings.spacingMethods[CHOOSE i \in named : \A j \in named : i <= j]

NoStored(f, k) == ~Has(f, k) \/ f[k] = 0

\* C25: when the note reviewed has no stored interval, or no stored ease,
\* the prior value the update uses is the default interval, or the default
\* ease, configured for the governing spacing method
C25_PriorsFromMethodDefaults ==
    obs.op = "updateInterval" =>
        /\ NoStored(fm[obs.file], FM_INTERVAL)
              => obs.calc.prevInterval = GoverningMethod.defaultInterval
        /\ NoStored(fm[obs.file], FM_EASE)
              => obs.calc.prevEaseFactor = GoverningMethod.defaultEaseFactor

\* C25, for defaults other than 0: the prior value is the configured default
C25_NonZeroDefaultsUsed ==
    obs.op = "updateInterval" =>
        /\ (NoStored(fm[obs.file], FM_INTERVAL) /\ GoverningMethod.defaultInterval # 0)
              => obs.calc.prevInterval = GoverningMethod.defaultInterval
        /\ (NoStored(fm[obs.file], FM_EASE) /\ GoverningMethod.defaultEaseFactor # 0)
              => obs.calc.prevEaseFactor = GoverningMethod.defaultEaseFactor


-----------------------------------------------------------------------------
(* Claim on the custom algorithm, under SpecOptions                        *)

\* C26: the review of a note whose governing spacing method selects the
\* custom algorithm does not run the SuperMemo 2.0 update and does not
\* change the interval and the ease of the note
C26_CustomNotImplemented ==
    /\ [](obs.op = "updateInterval" => GoverningMethod.spacingAlgorithm # "Custom")
    /\ [][(/\ obs'.op = "write" /\ obs'.by = "review"
           /\ obs'.calc # RemoveCalc
           /\ task["review"].pc = "write"
           /\ GoverningMethod.spacingAlgorithm = "Custom")
             => KeepsKeys(obs'.path, {FM_LAST_REVIEWED, FM_METHOD})]_vars


-----------------------------------------------------------------------------
(* Specification SpecTimestamp: find-next over notes whose last-reviewed   *)
(* value is absent, empty, or a timestamp with a Z, with an offset or      *)
(* without a zone, for both settings of the time zone and several zones of *)
(* the machine.                                                            *)

Stamps ==
    { NoStamp,
      DayStamp(1, "Z"),
      DayStamp(1, "bare"),
      Stamp(24 * 60 * 60 + 1, "bare", 0),
      Stamp(25 * 60 * 60, "offset", 60),
      Stamp(22 * 60 * 60 + 30 * 60, "offset", -90),
      Stamp(2 * 24 * 60 * 60, "offset", 330) }

TimestampNotes ==
    {(FM_INTERVAL :> 10000)} \cup
    {(FM_INTERVAL :> 10000) @@ (FM_LAST_REVIEWED :> s) : s \in Stamps}

InitTimestamp ==
    /\ \E z \in {"UTC", "Local"} :
          settings = [spacingMethods |-> <<Method("SM2", ScoreOptions, DefaultInterval,
                                                  DefaultEaseFactor)>>,
                      contexts |-> <<>>, timestampTimeZone |-> z]
    /\ \E f1, f2 \in TimestampNotes :
          fm = [n \in Notes |-> IF n = "n1" THEN f1 ELSE IF n = "n2" THEN f2 ELSE EmptyFm]
    /\ queue = <<>>
    /\ now = 0
    /\ tz \in {-90, 0, 60}
    /\ task = [c \in Cmds |-> Idle]
    /\ notices = <<>>
    /\ obs = NoObs
    /\ ncmd = 0

NextTimestamp ==
    \/ openNextReviewItem
    \/ \E t \in Instants : Tick(t)

SpecTimestamp == InitTimestamp /\ [][NextTimestamp]_vars

-----------------------------------------------------------------------------
(* Claim on parseTimestamp, under SpecTimestamp                            *)

\* the instant a written timestamp denotes, in milliseconds since the epoch,
\* when it is read in a zone of offset minutes east of UTC
RefInstantMs(stamp, offset) == stamp.wall * 1000 - offset * 60 * 1000

\* C27: a timestamp with a Z or with an offset is read as the instant it
\* denotes, whatever the setting of the time zone and the zone of the
\* machine; a timestamp without a zone is read as UTC with the setting UTC
\* and in the zone of the machine with the setting Local; an absent
\* timestamp is read as time 0
C27_ParseTimestamp ==
    obs.op = "openNext" =>
        \A n \in Notes :
            LET read == obs.lastReviewed[n] * 40
                stamp == fm[n][FM_LAST_REVIEWED]
            IN IF ~Has(fm[n], FM_LAST_REVIEWED) THEN read = 0
               ELSE IF stamp = NoStamp THEN read = 0
               ELSE IF stamp.zone = "Z" THEN read = RefInstantMs(stamp, 0)
               ELSE IF stamp.zone = "offset" THEN read = RefInstantMs(stamp, stamp.off)
               ELSE IF settings.timestampTimeZone = "UTC" THEN read = RefInstantMs(stamp, 0)
               ELSE read = RefInstantMs(stamp, tz)

\* find-next with the setting Local on a machine west of UTC reads a note
\* with an offset east of UTC and a note without a zone
C27_Witness ==
    /\ obs.op = "openNext"
    /\ settings.timestampTimeZone = "Local"
    /\ tz = -90
    /\ Has(fm["n1"], FM_LAST_REVIEWED) /\ fm["n1"][FM_LAST_REVIEWED].zone = "offset"
    /\ fm["n1"][FM_LAST_REVIEWED].off = 330
    /\ obs.lastReviewed["n1"] = (2 * 24 * 60 - 330) * TicksPerMinute
    /\ Has(fm["n2"], FM_LAST_REVIEWED) /\ fm["n2"][FM_LAST_REVIEWED].zone = "bare"
    /\ obs.lastReviewed["n2"] > TicksPerDay
    /\ obs.lastReviewed["n3"] = 0


-----------------------------------------------------------------------------
(* Specification SpecDefaultMethod: the settings are the default settings; *)
(* a note is onboarded and reviewed with Fruitful, Ignore and Unfruitful.  *)
(* The note starts new, just onboarded, or as a history of reviews longer  *)
(* than MaxCommands left it.                                               *)

DefaultOptions == <<Option("Fruitful", 1), Option("Ignore", 3), Option("Unfruitful", 5)>>

DefaultMethod ==
    Method("SuperMemo 2.0 (Simplified)", DefaultOptions, DefaultInterval, DefaultEaseFactor)

\* interval and ease after no review, after Fruitful three times, after
\* Unfruitful once, twice and four times, and after Fruitful then Unfruitful
DefaultHistories ==
    { <<10000, 25000>>, <<10000, 13000>>, <<26000, 26000>>, <<70200, 27000>>,
      <<570024, 29000>>, <<20600, 20600>> }

InitDefaultMethod ==
    /\ settings = [spacingMethods |-> <<DefaultMethod>>, contexts |-> <<>>,
                   timestampTimeZone |-> "UTC"]
    /\ \E f \in {EmptyFm} \cup
                {Onboarded(h[1], h[2], DayStamp(0, "Z")) @@ (FM_METHOD :> DefaultMethod.name) :
                    h \in DefaultHistories} :
          fm = [n \in Notes |-> IF n = "n1" THEN f ELSE EmptyFm]
    /\ queue = <<>>
    /\ now = TicksPerSecond
    /\ tz = 0
    /\ task = [c \in Cmds |-> Idle]
    /\ notices = <<>>
    /\ obs = NoObs
    /\ ncmd = 0

NextDefaultMethod ==
    \/ ReviewBegin("n1")
    \/ \E x \in {"Fruitful", "Ignore", "Unfruitful", "Remove"} : ReviewChoose(x)
    \/ ReviewCallback
    \/ ReviewQueue
    \/ WriteCallback("review")
    \/ Dismiss("review")
    \/ Tick(TicksPerDay + TicksPerSecond)

SpecDefaultMethod == InitDefaultMethod /\ [][NextDefaultMethod]_vars

-----------------------------------------------------------------------------
(* Claim on the order of the review outcomes, under SpecDefaultMethod      *)

\* what the review in flight would have computed with another score
WithScore(score) == computeInterval(fm[obs.file], score, GoverningMethod)

\* C28: from the prior interval and ease of any review, a higher score
\* gives no lower ease and no shorter interval; Fruitful (score 1) gives the
\* interval 1, and Unfruitful (score 5) gives an interval longer than Ignore
\* (score 3) does and longer than the prior interval
C28_ScoreOrder ==
    obs.op = "updateInterval" =>
        /\ \A a, b \in 0..5 :
              a < b => /\ WithScore(a).newEaseFactor <= WithScore(b).newEaseFactor
                       /\ WithScore(a).newInterval <= WithScore(b).newInterval
        /\ WithScore(obs.calc.reviewScore) = obs.calc
        /\ WithScore(1).newInterval = 10000
        /\ \A a \in 0..5 : WithScore(1).newInterval <= WithScore(a).newInterval
        /\ WithScore(5).newInterval > WithScore(3).newInterval
        /\ WithScore(5).newInterval > obs.calc.prevInterval

\* the third review of a note onboarded with the defaults, after Unfruitful
\* twice: Fruitful brings the interval back from 7.02 to 1
C28_Witness ==
    /\ obs.op = "updateInterval"
    /\ ncmd = 3
    /\ obs.calc.prevInterval = 70200 /\ obs.calc.prevEaseFactor = 27000
    /\ obs.calc.reviewScore = 1
    /\ obs.calc.newInterval = 10000
    /\ WithScore(3).newInterval > 10000


-----------------------------------------------------------------------------
(* Claim on 'Onboard all notes', under SpecDefaults                        *)

SchedulingKeys == {FM_INTERVAL, FM_LAST_REVIEWED, FM_EASE}

\* the folders a note is inside of, at any depth
RefFoldersOf(n) ==
    IF n = "n1" THEN {"/"}
    ELSE IF n = "n2" THEN {"/", "templates"}
    ELSE {"/", "templates", "templates/daily"}

RefExcluded(n) == \E i \in 1..Len(settings.onboardingExcludedFolders) :
                     settings.onboardingExcludedFolders[i] \in RefFoldersOf(n)

\* C29: after 'Onboard all notes' every note that was onboarded has the
\* interval, the last-reviewed and the ease it had before, and every note
\* inside an excluded folder, at any depth, is as it was
C29_OnboardAllKeepsExisting ==
    obs.op = "onboardAll" =>
        \A n \in Notes :
            /\ Has(obs.was[n], FM_INTERVAL) =>
                  \A k \in SchedulingKeys \cap DOMAIN obs.was[n] : fm[n][k] = obs.was[n][k]
            /\ RefExcluded(n) => fm[n] = obs.was[n]

\* C29, for stored values other than 0, and for the excluded folders
C29_KeepsNonZero ==
    obs.op = "onboardAll" =>
        \A n \in Notes :
            /\ \A k \in {FM_INTERVAL, FM_EASE} \cap DOMAIN obs.was[n] :
                  obs.was[n][k] # 0 => fm[n][k] = obs.was[n][k]
            /\ Has(obs.was[n], FM_LAST_REVIEWED)
                  => fm[n][FM_LAST_REVIEWED] = obs.was[n][FM_LAST_REVIEWED]
            /\ RefExcluded(n) => fm[n] = obs.was[n]
            /\ ~RefExcluded(n) => SchedulingKeys \subseteq DOMAIN fm[n]

\* 'Onboard all notes' with the folder above the folder of a note excluded,
\* after a review changed the values of an onboarded note
C29_WitnessNonZero ==
    /\ obs.op = "onboardAll"
    /\ settings.onboardingExcludedFolders = <<"templates">>
    /\ fm["n3"] = EmptyFm
    /\ Has(obs.was["n1"], FM_EASE) /\ obs.was["n1"][FM_EASE] # 25000
    /\ fm["n1"] = obs.was["n1"]


-----------------------------------------------------------------------------
(* Claim on the write of a review, under SpecLifecycle                     *)

\* the updates the write callback of command c applies in the step
WrittenBy(c) == IF task[c].detached THEN task[c].wupd ELSE queue[task[c].idx].upd

\* the updates hold every mutation of a review that resolved its method as
\* res: the interval, the ease and the last-reviewed (set, or deleted by
\* Remove), and the method when the review resolved it anew
WholeReview(u, res) ==
    /\ \/ SchedulingKeys \subseteq DOMAIN u.set
       \/ SchedulingKeys \subseteq u.del
    /\ res.how \in Fallbacks \cup {"context"} =>
          /\ FM_METHOD \in DOMAIN u.set
          /\ u.set[FM_METHOD] = res.name

\* C30: while the review of an onboarded note is in flight every step that
\* changes the note is a write that applies all the mutations of the review
\* together: the new interval, ease and last-reviewed, and the method when it
\* was resolved anew
C30_ReviewWriteAtomic ==
    [][\A n \in Notes :
          (/\ task["review"].pc \in {"prompt", "sm2", "sm2done", "write"}
           /\ task["review"].file = n
           /\ ResOf(task["review"]).how \in Fallbacks \cup {"context", "method"}
           /\ fm'[n] # fm[n])
          => /\ obs'.op = "write"
             /\ obs'.path = n
             /\ WholeReview(WrittenBy(obs'.by), task["review"].res)]_vars


-----------------------------------------------------------------------------
(* Specification SpecCommands: the three commands that write metadata      *)
(* (review, toggle note contexts, update spacing method) on two onboarded  *)
(* notes, overlapping at their await points, and find-next.                *)

CommandsContexts == { <<>>, <<Context("X", TRUE, "B")>> }

InitCommands ==
    /\ \E cs \in CommandsContexts :
          settings = [spacingMethods |-> ResolveMethods, contexts |-> cs,
                      timestampTimeZone |-> "UTC"]
    /\ \E k \in {EmptyFm, (FM_CONTEXTS :> <<"X">>)} :
          fm = [n \in Notes |->
                   IF n = "n1" THEN Onboarded(10000, 25000, DayStamp(0, "Z")) @@ k
                   ELSE IF n = "n2"
                        THEN Onboarded(20000, 20000, DayStamp(0, "Z")) @@ (FM_METHOD :> "B")
                        ELSE EmptyFm]
    /\ queue = <<>>
    /\ now = TicksPerDay + TicksPerSecond
    /\ tz = 0
    /\ task = [c \in Cmds |-> Idle]
    /\ notices = <<>>
    /\ obs = NoObs
    /\ ncmd = 0

NextCommands ==
    \/ \E f \in {"n1", "n2"} : ReviewBegin(f)
    \/ \E x \in {"Fruitful", "Remove"} : ReviewChoose(x)
    \/ ReviewCallback
    \/ ReviewQueue
    \/ \E c \in Cmds : WriteCallback(c)
    \/ \E c \in Cmds : Dismiss(c)
    \/ ToggleBegin("n2")
    \/ ToggleChoose("X")
    \/ \E f \in {"n1", "n2"} : UpdateBegin(f)
    \/ \E x \in {"A", "B"} : UpdateChoose(x)
    \/ openNextReviewItem

SpecCommands == InitCommands /\ [][NextCommands]_vars

-----------------------------------------------------------------------------
(* Claims on the frontmatter queue, under SpecCommands                     *)

\* command c ends in this step, by returning: a prompt that is dismissed
\* leaves its command suspended
Finishes(c) ==
    /\ task[c].pc # "idle"
    /\ task'[c].pc = "idle"
    /\ obs'.op # "dismiss"

\* C31: when a command finishes and no other command is in flight, the
\* frontmatter queue is empty: every update the command queued and announced
\* has been written, and none is left to the process() of a later command
C31_NothingPendingAtFinish ==
    [][\A c \in Cmds : (Finishes(c) /\ \A d \in Cmds : task'[d].pc = "idle") => queue' = <<>>]_vars

\* the updates u are in the frontmatter f
Applied(f, u) == ApplyUpdates(f, u) = f

\* the write of entry e is still awaited by a process() that was handed its
\* updates before the queue was cleared
Awaited(e) ==
    \E d \in Cmds : /\ task'[d].pc = "write"
                    /\ task'[d].detached
                    /\ task'[d].wpath = e.path
                    /\ task'[d].wupd = e.upd

\* C32: when queue.clear() empties the queue, every update of every entry is
\* in the frontmatter of its file, or its write is still awaited: none is
\* discarded unwritten
C32_NoUpdateLost ==
    [][(queue # <<>> /\ queue' = <<>>)
         => \A i \in 1..Len(queue) :
               IsFile(queue[i].path) =>
                  \/ Applied(fm'[queue[i].path], queue[i].upd)
                  \/ Awaited(queue[i])]_vars

\* the notices of the cancelled branches of the commands
CancelNotices ==
    { <<"Spaced Everything review cancelled by user">>,
      <<"Onboarding cancelled by user.">>,
      <<"Spacing method update cancelled by user.">> }

\* C33: the command whose prompt is dismissed receives the cancelled result:
\* it takes its cancelled branch, shows the notice of that branch, and ends
C33_DismissIsCancelled ==
    [][\A c \in Cmds :
          (task[c].pc \in Prompts /\ obs'.op = "dismiss" /\ obs'.by = c)
          => /\ notices' \in CancelNotices
             /\ task'[c].pc = "idle"]_vars


-----------------------------------------------------------------------------
(* Specification SpecVault: the commands that write metadata, on two       *)
(* onboarded notes that may be deleted at any moment.                      *)

InitVault ==
    /\ settings = [spacingMethods |-> ResolveMethods, contexts |-> <<>>,
                   timestampTimeZone |-> "UTC"]
    /\ \E k \in {EmptyFm, (FM_METHOD :> "A")} :
          fm = [n \in {"n1", "n2"} |-> Onboarded(10000, 25000, DayStamp(0, "Z")) @@ k]
    /\ queue = <<>>
    /\ now = TicksPerDay + TicksPerSecond
    /\ tz = 0
    /\ task = [c \in Cmds |-> Idle]
    /\ notices = <<>>
    /\ obs = NoObs
    /\ ncmd = 0

NextVault ==
    \/ \E f \in {"n1", "n2"} : ReviewBegin(f)
    \/ \E x \in {"Fruitful", "Remove"} : ReviewChoose(x)
    \/ ReviewCallback
    \/ ReviewRejects
    \/ ReviewQueue
    \/ \E c \in Cmds : WriteCallback(c)
    \/ \E c \in Cmds : Dismiss(c)
    \/ ToggleBegin("n2")
    \/ \E f \in {"n1", "n2"} : UpdateBegin(f)
    \/ \E x \in {"A", "B"} : UpdateChoose(x)
    \/ \E f \in {"n1", "n2"} : DeleteFile(f)

SpecVault == InitVault /\ [][NextVault]_vars

-----------------------------------------------------------------------------
(* Claim on persistence failures, under SpecVault                          *)

\* C34: no process() waits for the write of a path that is no file, whose
\* callback will never run; and the step in which the queue is cleared of an
\* entry whose path is no file raises an exception to the command
C34_FailureIsSignalled ==
    /\ [](\A c \in Cmds : task[c].pc = "write" => IsFile(task[c].wpath))
    /\ [][(queue' = <<>> /\ \E i \in 1..Len(queue) : ~IsFile(queue[i].path))
            => obs'.op = "exception"]_vars


-----------------------------------------------------------------------------
(* Claim on find-next, under SpecCommands                                  *)

\* C35: a step of find-next changes no note, neither the frontmatter queue
\* nor a command in flight, and no setting; run again at once, it opens the
\* note it opened before
C35_FindNextReadOnly ==
    [][obs'.op = "openNext"
         => /\ fm' = fm
            /\ queue' = queue
            /\ settings' = settings
            /\ task' = task
            /\ obs.op = "openNext" => obs'.opened = obs.opened]_vars

\* find-next opens a note while an update of that note waits in the queue
C35_Witness ==
    /\ obs.op = "openNext"
    /\ obs.opened = "n1"
    /\ QueueIndex(queue, "n1") # 0
    /\ ~Applied(fm["n1"], queue[QueueIndex(queue, "n1")].upd)


-----------------------------------------------------------------------------
(* Claim on the Remove outcome, under SpecCommands                         *)

\* C36: every write of a review that ends in Remove changes, of the note
\* reviewed, only the interval, ease, last-reviewed and contexts keys, and
\* changes no other note
C36_RemoveFrame ==
    [][(obs'.op = "write" /\ obs'.by = "review" /\ obs'.calc = RemoveCalc)
         => /\ KeepsKeys(obs'.file, {FM_INTERVAL, FM_EASE, FM_LAST_REVIEWED, FM_CONTEXTS})
            /\ \A n \in Notes \ {obs'.file} : fm'[n] = fm[n]]_vars


-----------------------------------------------------------------------------
(* Specification SpecRounds: rounds of review.  The user runs find-next    *)
(* and then reviews, with any score, or removes the note it opened, while  *)
(* the clock advances, between the commands and while a prompt is open     *)
(* (a write is a matter of milliseconds); the settings stay as they are.   *)

RoundsOptions == <<Option("Again", 1), Option("Good", 3), Option("Easy", 5)>>

RoundsMethod == Method("SM2", RoundsOptions, DefaultInterval, DefaultEaseFactor)

RoundsContexts == { <<>>, <<Context("X", TRUE, ""), Context("Y", FALSE, "")>> }

RoundsThird ==
    { Onboarded(20000, 25000, Stamp(1, "Z", 0)),
      Onboarded(10000, 13000, DayStamp(1, "bare")),
      (FM_INTERVAL :> 10000) @@ (FM_CONTEXTS :> <<"Y">>) }

\* the time-zone setting with the zone of the machine, minutes east of UTC
RoundsZones == { <<"UTC", 60>>, <<"Local", -210>> }

InitRounds ==
    /\ \E cs \in RoundsContexts, z \in RoundsZones :
          /\ settings = [spacingMethods |-> <<RoundsMethod>>, contexts |-> cs,
                         timestampTimeZone |-> z[1]]
          /\ tz = z[2]
    /\ \E f \in RoundsThird :
          fm = [n \in Notes |->
                   (IF n = "n1" THEN Onboarded(10000, 25000, DayStamp(0, "Z"))
                    ELSE IF n = "n2"
                         THEN Onboarded(5000, 13000, DayStamp(0, "Z")) @@ (FM_CONTEXTS :> <<"X">>)
                         ELSE f) @@ (FM_METHOD :> "SM2")]
    /\ queue = <<>>
    /\ now = 0
    /\ task = [c \in Cmds |-> Idle]
    /\ notices = <<>>
    /\ obs = NoObs
    /\ ncmd = 0

NextRounds ==
    \/ openNextReviewItem
    \/ obs.op = "openNext" /\ obs.opened \in Notes /\ ReviewBegin(obs.opened)
    \/ \E x \in {"Again", "Good", "Easy", "Remove"} : ReviewChoose(x)
    \/ ReviewCallback
    \/ ReviewQueue
    \/ WriteCallback("review")
    \/ \E d \in 1..MaxDays :
          /\ task["review"].pc \in {"idle", "prompt"}
          /\ Tick(d * TicksPerDay + TicksPerSecond)

SpecRounds == InitRounds /\ [][NextRounds]_vars

-----------------------------------------------------------------------------
(* Claims on the rounds of review, under SpecRounds                        *)

\* the write of a review, other than Remove, of the note reviewed
WroteReview ==
    /\ obs.op = "write"
    /\ obs.by = "review"
    /\ obs.path = obs.file
    /\ obs.calc # RemoveCalc
    /\ obs.calc # NoCalc

\* C37: right after the write of a review the note reviewed is not due, and
\* find-next would not open it
C37_NotDueAfterReview ==
    WroteReview => /\ ~isDue(obs.file)
                   /\ \A i \in 1..Len(filteredPages) : filteredPages[i] # obs.file

\* the place of note n in the due queue, 0 when it is not in it
Rank(n) ==
    LET at == {i \in 1..Len(filteredPages) : filteredPages[i] = n}
    IN IF at = {} THEN 0 ELSE CHOOSE i \in at : TRUE

\* the last-reviewed time and the due time of a note with frontmatter f (the
\* settings and the zone of the machine stay as they are)
LastReviewedIn(f) ==
    IF Has(f, FM_LAST_REVIEWED)
    THEN parseTimestamp(f[FM_LAST_REVIEWED], settings.timestampTimeZone, tz)
    ELSE 0

DueTimeIn(f) ==
    LastReviewedIn(f)
    + (IF Has(f, FM_INTERVAL) /\ f[FM_INTERVAL] # NaN THEN f[FM_INTERVAL] * TicksPerUnit ELSE 0)

\* note n is due at time t, and passes the filter, when the notes are as in f
QueuedIn(n, f, t) ==
    /\ Has(f[n], FM_INTERVAL)
    /\ f[n][FM_INTERVAL] # NaN
    /\ t > DueTimeIn(f[n])
    /\ \/ Len(settings.contexts) = 0
       \/ /\ RefActiveNames # {}
          /\ \/ ~Has(f[n], FM_CONTEXTS)
             \/ f[n][FM_CONTEXTS] = <<>>
             \/ Range(f[n][FM_CONTEXTS]) \cap RefActiveNames # {}

\* the place of the note in the vault
VaultIndex(n) == CHOOSE i \in 1..Len(Files) : Files[i] = n

\* the place note n has in the due queue at time t when the notes are as in
\* f: one more than the number of queued notes with an earlier due time, or
\* with the same due time and an earlier place in the vault
RankIn(n, f, t) ==
    IF ~QueuedIn(n, f, t) THEN 0
    ELSE 1 + Cardinality({m \in Notes :
                 /\ QueuedIn(m, f, t)
                 /\ \/ DueTimeIn(f[m]) < DueTimeIn(f[n])
                    \/ DueTimeIn(f[m]) = DueTimeIn(f[n]) /\ VaultIndex(m) < VaultIndex(n)})

\* this step writes the review, or the Remove, of note n
Handles(n) ==
    /\ obs'.op = "write"
    /\ obs'.by = "review"
    /\ obs'.path = n
    /\ obs'.file = n

-----------------------------------------------------------------------------
(* Claim on the growth of the interval, under SpecOptions                  *)

\* C39: the interval that a review writes is at least 1; and when the score
\* is 3 or more and the prior interval is at least 1, the new interval is
\* greater than the prior interval and at least 1.3 times it
C39_IntervalGrows ==
    /\ WroteReview => fm[obs.file][FM_INTERVAL] >= Scale
    /\ (obs.op = "updateInterval" /\ obs.calc.reviewScore >= 3 /\ obs.calc.prevInterval >= Scale)
          => /\ obs.calc.newInterval > obs.calc.prevInterval
             /\ 10 * obs.calc.newInterval >= 13 * obs.calc.prevInterval


-----------------------------------------------------------------------------
(* Specification SpecRoundTrip: notes are onboarded, reviewed and          *)
(* onboarded all at once, at several instants, for both settings of the    *)
(* time zone and zones of the machine east and west of UTC, whole hours    *)
(* and not.  The clock moves between commands, so that a last-reviewed     *)
(* value is written at the instant its command read the clock.             *)

RoundTripZones == {-210, -90, 0, 60, 330}

InitRoundTrip ==
    /\ \E z \in {"UTC", "Local"} :
          settings = [spacingMethods |-> <<RoundsMethod>>, contexts |-> <<>>,
                      timestampTimeZone |-> z, onboardingExcludedFolders |-> <<>>]
    /\ fm = [n \in Notes |->
                IF n = "n1" THEN Onboarded(10000, 25000, DayStamp(0, "Z")) @@ (FM_METHOD :> "SM2")
                ELSE EmptyFm]
    /\ queue = <<>>
    /\ now = 1
    /\ tz \in RoundTripZones
    /\ task = [c \in Cmds |-> Idle]
    /\ notices = <<>>
    /\ obs = NoObs
    /\ ncmd = 0

NextRoundTrip ==
    \/ \E f \in Notes : ReviewBegin(f)
    \/ ReviewChoose("Good")
    \/ ReviewCallback
    \/ ReviewQueue
    \/ WriteCallback("review")
    \/ OnboardAll
    \/ \E d \in 1..MaxDays : AllIdle /\ Tick(d * TicksPerDay + 1)

SpecRoundTrip == InitRoundTrip /\ [][NextRoundTrip]_vars

-----------------------------------------------------------------------------
(* Claim on the round trip of timestamps, under SpecRoundTrip              *)

\* the clock in whole seconds
NowSeconds == (now \div TicksPerSecond) * TicksPerSecond

\* the notes whose last-reviewed value the step writes
Stamped == {n \in Notes : /\ Has(fm'[n], FM_LAST_REVIEWED)
                          /\ Get(fm[n], FM_LAST_REVIEWED, NoStamp) # fm'[n][FM_LAST_REVIEWED]}

\* C40: the last-reviewed value that onboarding, a review or onboard-all
\* write is read back by parseTimestamp as the instant of the command in
\* whole seconds, for both settings of the time zone and every zone of the
\* machine
C40_RoundTrip ==
    [][\A n \in Stamped :
          parseTimestamp(fm'[n][FM_LAST_REVIEWED], settings.timestampTimeZone, tz) = NowSeconds]_vars
====
